---- MODULE Spec2Model ----
(***************************************************************************)
(* State-machine model of the NAMASTE / ICD-11 terminology microservice:   *)
(* the Mapping Store with translate and add_mapping (mapping_service.py),  *)
(* the Concept Store with the relevance search (namaste_loader.py), the    *)
(* external ICD-11 provider (icd11_client.py), the merged search endpoint   *)
(* (routes/lookup.py), and the FHIR Bundle upload (routes/bundle_upload.py) *)
(* with token verification (security/auth.py) and the audit log            *)
(* (security/audit.py).                                                    *)
(*                                                                         *)
(* Conventions.  A Python str whose characters matter (codes, displays,    *)
(* queries) is a sequence of one-character strings.  An Optional value is  *)
(* a sequence of length 0 (None) or 1.  Confidence and relevance scores    *)
(* are floats with one decimal in the source and are kept here in tenths   *)
(* (0.7 is 7, 1.0 is 10).                                                  *)
(***************************************************************************)
EXTENDS Integers, Sequences, FiniteSets, TLC

VARIABLES concepts, mappings, resp, sessions, audit_logs

vars == <<concepts, mappings, resp, sessions, audit_logs>>

-----------------------------------------------------------------------------
(* Bounds of the model.                                                     *)

MaxMappings == 3

NumSessions == 2

MaxConcepts == 3

MaxLimit == 2

-----------------------------------------------------------------------------
(* Generic helpers.                                                         *)

None == <<>>

Some(v) == <<v>>

Range(s) == {s[i] : i \in 1..Len(s)}

Take(s, n) == SubSeq(s, 1, IF n < Len(s) THEN n ELSE Len(s))

RECURSIVE SelectIdx(_, _)
\* the increasing sequence of the indices in the set idx
SelectIdx(n, idx) ==
    IF n = 0 THEN <<>>
    ELSE IF n \in idx THEN Append(SelectIdx(n - 1, idx), n)
         ELSE SelectIdx(n - 1, idx)

-----------------------------------------------------------------------------
(* Python str operations on character sequences.                            *)

LowerChar(c) ==
    CASE c = "A" -> "a"
      [] c = "B" -> "b"
      [] c = "X" -> "x"
      [] c = "N" -> "n"
      [] OTHER -> c

Lower(s) == [i \in 1..Len(s) |-> LowerChar(s[i])]

StartsWith(s, p) == Len(p) <= Len(s) /\ SubSeq(s, 1, Len(p)) = p

StrContains(s, p) ==
    \E i \in 0..(Len(s) - Len(p)) : SubSeq(s, i + 1, i + Len(p)) = p

-----------------------------------------------------------------------------
(* Terminology systems and the data the stores are filled from.             *)

SysNamaste == "namaste"

SysIcd11 == "icd11"

CodeN1 == <<"A", "B">>

CodeN2 == <<"x", "a">>

CodeT1 == <<"a", "b">>

CodeT2 == <<"t", "2">>

CodeT3 == <<"t", "3">>

\* FHIR ConceptMapEquivalence values named by the Mapping model
Equivalences ==
    {"equivalent", "wider", "narrower", "specializes", "generalizes", "relatedto"}

\* the 4-tuples add_mapping is called with
MappingKeys ==
    { [source_system |-> SysNamaste, source_code |-> CodeN1,
       target_system |-> SysIcd11, target_code |-> t] : t \in {CodeT1, CodeT2, CodeT3} }
    \cup
    { [source_system |-> SysNamaste, source_code |-> CodeN2,
       target_system |-> SysIcd11, target_code |-> CodeT1] }

\* the remaining arguments add_mapping is called with
MappingPayloads ==
    { [equivalence |-> "relatedto", confidence |-> 9,
       method |-> Some("expert_review"), evidence |-> Some("reviewed"),
       curator |-> Some("NAMASTE Team")],
      [equivalence |-> "equivalent", confidence |-> 6,
       method |-> None, evidence |-> None, curator |-> None],
      [equivalence |-> "sameas", confidence |-> 8,
       method |-> Some("automatic"), evidence |-> None, curator |-> None],
      [equivalence |-> "wider", confidence |-> 15,
       method |-> None, evidence |-> Some("import"), curator |-> Some("batch")] }

NewMapping(k, p) ==
    [source_system |-> k.source_system, source_code |-> k.source_code,
     target_system |-> k.target_system, target_code |-> k.target_code,
     equivalence |-> p.equivalence, confidence |-> p.confidence,
     method |-> p.method, evidence |-> p.evidence, curator |-> p.curator]

MappingArgs == {NewMapping(k, p) : k \in MappingKeys, p \in MappingPayloads}

KeyOf(m) ==
    [source_system |-> m.source_system, source_code |-> m.source_code,
     target_system |-> m.target_system, target_code |-> m.target_code]

-----------------------------------------------------------------------------------------------------------------------------------------------------
(* Concept rows.  metadata is an optional JSON object (a Python dict): a   *)
(* set of <<key, value>> pairs with distinct keys, a value being a JSON     *)
(* string or null.                                                          *)

JStr(s) == [kind |-> "str", s |-> s]

JNull == [kind |-> "null", s |-> <<>>]

\* Python str() of a JSON value read back from the metadata column
PyStr(v) == IF v.kind = "null" THEN <<"N", "o", "n", "e">> ELSE v.s

\* field in metadata
HasKey(d, field) == \E p \in d : p[1] = field

\* metadata[field]
Get(d, field) == (CHOOSE p \in d : p[1] = field)[2]

\* the metadata fields the search looks at
MetadataFields == <<"sanskrit_name", "english_name", "category", "subcategory">>

\* a row of the CSV file: code, display, definition and the optional columns
\* it has (a set of <<column, text>> pairs)
CsvRow(code, display, definition, columns) ==
    [code |-> code, display |-> display, definition |-> definition,
     columns |-> columns]

\* the Concept load_from_csv builds from a row: system "namaste", and a
\* metadata object holding every field, '' for a column the row lacks
NewConcept(row) ==
    [system |-> SysNamaste,
     code |-> row.code,
     display |-> row.display,
     definition |-> Some(row.definition),
     metadata |-> Some({ <<MetadataFields[n],
                           JStr(IF HasKey(row.columns, MetadataFields[n])
                                THEN Get(row.columns, MetadataFields[n])
                                ELSE <<>>)>> : n \in 1..Len(MetadataFields) })]

R2 ==
    CsvRow(<<"a", "b", "x">>, <<"a", "b">>, <<"b">>,
           { <<"category", <<"a", "b">> >>, <<"sanskrit_name", <<"x">> >> })

R3 ==
    CsvRow(CodeN2, <<"x", "b", "a">>, <<"x", "A", "b">>,
           { <<"sanskrit_name", <<"a">> >>, <<"english_name", <<"A">> >>,
             <<"category", <<"b", "a">> >>, <<"subcategory", <<"x", "a">> >> })

R5 ==
    CsvRow(<<"x">>, <<"x", "x">>, <<>>, { <<"english_name", <<"A", "b">> >> })

R6 ==
    CsvRow(CodeT1, <<"y", "a", "b">>, <<>>, {})

\* a namaste concept stored with NULL definition and NULL metadata
K1 ==
    [system |-> SysNamaste, code |-> CodeN1, display |-> <<"x">>,
     definition |-> None, metadata |-> None]

\* an ICD-11 concept kept in the local Concept Store
K4 ==
    [system |-> SysIcd11, code |-> CodeT1, display |-> <<"a">>,
     definition |-> None,
     metadata |-> Some({ <<"category", JStr(<<"a">>)>> })]

K6 == NewConcept(R6)

-----------------------------------------------------------------------------
(* Result.scalar_one_or_none(): None for no row, the row for one row, and  *)
(* MultipleResultsFound raised for more than one.                           *)

ScalarOneOrNone(rows) ==
    [raised |-> Len(rows) > 1,
     value |-> IF Len(rows) = 1 THEN Some(rows[1]) ELSE None]

\* select(Concept).where(system == .., code == ..), in store order
SelectConcept(cs, system, code) ==
    LET idx == {i \in 1..Len(cs) : cs[i].system = system /\ cs[i].code = code}
        ix == SelectIdx(Len(cs), idx)
    IN  [i \in 1..Len(ix) |-> cs[ix[i]]]

_get_concept(cs, system, code) == ScalarOneOrNone(SelectConcept(cs, system, code))

-----------------------------------------------------------------------------
(* MappingService.translate                                                 *)

\* a mutant of the query: the source_code condition is lost
SelectMappingsBySource_anycode(ms, system, code) ==
    LET idx == {i \in 1..Len(ms) : ms[i].source_system = system}
        ix == SelectIdx(Len(ms), idx)
    IN  [i \in 1..Len(ix) |-> ms[ix[i]]]

\* select(Mapping).where(source_system == system, source_code == code)
SelectMappingsBySource(ms, system, code) ==
    LET idx == {i \in 1..Len(ms) :
                    ms[i].source_system = system /\ ms[i].source_code = code}
        ix == SelectIdx(Len(ms), idx)
    IN  [i \in 1..Len(ix) |-> ms[ix[i]]]

\* the TranslationCandidate built for one mapping row
Candidate(cs, m) ==
    LET target_concept == _get_concept(cs, m.target_system, m.target_code).value
    IN  [target_system |-> m.target_system,
         target_code |-> m.target_code,
         target_display |-> IF target_concept # None
                            THEN Some(target_concept[1].display) ELSE None,
         equivalence |-> m.equivalence,
         confidence |-> m.confidence,
         method |-> m.method,
         evidence |-> m.evidence]

\* insert x into a list sorted by descending confidence, after every element
\* that does not rank below it
InsertByConfidence(sorted, x) ==
    LET before == {i \in 1..Len(sorted) : sorted[i].confidence >= x.confidence}
        n == Cardinality(before)
    IN  SubSeq(sorted, 1, n) \o <<x>> \o SubSeq(sorted, n + 1, Len(sorted))

RECURSIVE SortByConfidence_tiesreversed(_)
\* a mutant of the sort: descending, but equal confidences come out reversed
SortByConfidence_tiesreversed(s) ==
    IF s = <<>> THEN <<>>
    ELSE InsertByConfidence(SortByConfidence_tiesreversed(Tail(s)), Head(s))

RECURSIVE SortByConfidence(_)
\* candidates.sort(key=confidence, reverse=True): a stable sort, so the
\* elements are inserted left to right, each after its equals
SortByConfidence(s) ==
    IF s = <<>> THEN <<>>
    ELSE InsertByConfidence(SortByConfidence(SubSeq(s, 1, Len(s) - 1)), s[Len(s)])

\* does translate raise: a target (system, code) stored more than once
TranslateRaises(cs, ms, system, code) ==
    LET rows == SelectMappingsBySource(ms, system, code)
    IN  \E i \in 1..Len(rows) :
            _get_concept(cs, rows[i].target_system, rows[i].target_code).raised

translate(cs, ms, system, code) ==
    LET rows == SelectMappingsBySource(ms, system, code)
        candidates == [i \in 1..Len(rows) |-> Candidate(cs, rows[i])]
    IN  SortByConfidence(candidates)

-----------------------------------------------------------------------------
(* routes/translate.py: translate_concept                                   *)

\* the FHIR parameters emitted for one candidate
CandidateParameters(c) ==
    << [name |-> "target",
        value |-> << <<"http://terminology.hl7.org/CodeSystem/", c.target_system>>,
                     c.target_code,
                     IF c.target_display # None THEN c.target_display[1] ELSE <<>> >>],
       [name |-> "equivalence", value |-> <<c.equivalence>>],
       [name |-> "confidence", value |-> <<c.confidence>>] >>
    \o (IF c.method # None /\ c.method[1] # ""
        THEN << [name |-> "method", value |-> c.method] >> ELSE <<>>)
    \o (IF c.evidence # None /\ c.evidence[1] # ""
        THEN << [name |-> "evidence", value |-> c.evidence] >> ELSE <<>>)

RECURSIVE Parameters(_)
Parameters(candidates) ==
    IF candidates = <<>> THEN <<>>
    ELSE CandidateParameters(Head(candidates)) \o Parameters(Tail(candidates))

translate_concept(cs, ms, system, code) ==
    IF TranslateRaises(cs, ms, system, code)
    THEN [op |-> "translate", system |-> system, code |-> code,
          status |-> 500, candidates |-> <<>>, parameter |-> <<>>]
    ELSE LET candidates == translate(cs, ms, system, code)
         IN  [op |-> "translate", system |-> system, code |-> code,
              status |-> 200, candidates |-> candidates,
              parameter |-> Parameters(candidates)]

-----------------------------------------------------------------------------
(* MappingService.add_mapping                                               *)

\* select(Mapping).where(all four key columns match)
SelectMappingByKey(ms, a) ==
    LET idx == {i \in 1..Len(ms) : KeyOf(ms[i]) = KeyOf(a)}
        ix == SelectIdx(Len(ms), idx)
    IN  [i \in 1..Len(ix) |-> ms[ix[i]]]

\* where the store can fail during add_mapping: not at all, in the
\* existence query, or in the commit of the insert
Faults == {"none", "execute", "commit"}

\* a mutant of add_mapping: a row counts as existing only when every column
\* matches, so the same 4-tuple with another payload is inserted again
add_mapping_fullrow(ms, a, fault) ==
    IF \E i \in 1..Len(ms) : ms[i] = a
    THEN [ret |-> FALSE, mappings |-> ms]
    ELSE IF fault # "none"
    THEN [ret |-> FALSE, mappings |-> ms]
    ELSE [ret |-> TRUE, mappings |-> Append(ms, a)]

\* the value add_mapping returns and the Mapping Store it leaves; every
\* exception (a store fault, MultipleResultsFound) is caught, the session is
\* rolled back and False is returned
add_mapping(ms, a, fault) ==
    LET existing == ScalarOneOrNone(SelectMappingByKey(ms, a))
    IN  IF fault = "execute" \/ existing.raised
        THEN [ret |-> FALSE, mappings |-> ms]
        ELSE IF existing.value # None
        THEN [ret |-> FALSE, mappings |-> ms]
        ELSE IF fault = "commit"
        THEN [ret |-> FALSE, mappings |-> ms]
        ELSE [ret |-> TRUE, mappings |-> Append(ms, a)]

\* one element of default_mappings: source NAM-AY-000n, target AB1n
DefaultMapping(n, confidence) ==
    [source_system |-> SysNamaste, source_code |-> <<"NAM-AY-000", n>>,
     target_system |-> SysIcd11, target_code |-> <<"AB1", n>>,
     equivalence |-> "relatedto", confidence |-> confidence,
     method |-> Some("expert_review"), evidence |-> Some("reviewed"),
     curator |-> Some("NAMASTE Team")]

\* default_mappings of seed_default_mappings
DefaultMappings ==
    << DefaultMapping("1", 8), DefaultMapping("2", 7), DefaultMapping("3", 9),
       DefaultMapping("4", 6), DefaultMapping("5", 8) >>

\* the loop of seed_default_mappings from row i on; faults[i] is the fault
\* the store meets in the add_mapping call for row i
RECURSIVE SeedRows(_, _, _)
SeedRows(st, faults, i) ==
    IF i > Len(DefaultMappings)
    THEN st
    ELSE CHOOSE out \in
             { SeedRows([mappings |-> r.mappings,
                         added |-> st.added + (IF r.ret THEN 1 ELSE 0),
                         skipped |-> st.skipped + (IF r.ret THEN 0 ELSE 1)],
                        faults, i + 1) :
                 r \in {add_mapping(st.mappings, DefaultMappings[i], faults[i])} } :
             TRUE

\* seed_default_mappings: the statistics it returns and the store it leaves
seed_default_mappings(ms, faults) ==
    LET st == SeedRows([mappings |-> ms, added |-> 0, skipped |-> 0], faults, 1)
    IN  [added |-> st.added, skipped |-> st.skipped,
         total |-> Len(DefaultMappings), mappings |-> st.mappings]

-----------------------------------------------------------------------------
(* Specification Spec: requests served one after another against the       *)
(* Mapping Store.                                                           *)

TranslateConceptStores == {<<K6>>, <<K6, K4>>}

TranslateSystems == {SysNamaste, SysIcd11}

TranslateCodes == {CodeN1, CodeN2, CodeT1}

NoSessions == [s \in 1..NumSessions |-> [pc |-> "idle"]]

\* no request is being served
Idle == [op |-> "none"]

\* the response of the request in progress is returned and its session closed
Reply ==
    /\ resp # Idle
    /\ resp' = Idle
    /\ UNCHANGED <<concepts, mappings, sessions, audit_logs>>

Init ==
    /\ concepts \in TranslateConceptStores
    /\ mappings = <<>>
    /\ resp = Idle
    /\ sessions = NoSessions
    /\ audit_logs = <<>>

AddMapping(a, fault) ==
    LET r == add_mapping(mappings, a, fault)
    IN  /\ resp = Idle
        /\ Len(r.mappings) <= MaxMappings
        /\ mappings' = r.mappings
        /\ resp' = [op |-> "add_mapping", args |-> a, fault |-> fault, ret |-> r.ret]
        /\ UNCHANGED <<concepts, sessions, audit_logs>>

TranslateConcept(system, code) ==
    /\ resp = Idle
    /\ resp' = translate_concept(concepts, mappings, system, code)
    /\ UNCHANGED <<concepts, mappings, sessions, audit_logs>>

Next ==
    \/ \E a \in MappingArgs, fault \in Faults : AddMapping(a, fault)
    \/ \E system \in TranslateSystems, code \in TranslateCodes :
           TranslateConcept(system, code)
    \/ Reply

Spec == Init /\ [][Next]_vars

-----------------------------------------------------------------------------
(* Specification SpecConcurrent: add_mapping requests on separate sessions, *)
(* interleaved at their awaits.  The existence query sees the committed    *)
(* rows; the mappings table has no unique constraint over the 4-tuple       *)
(* (001_initial_schema.py), so a commit of a new row always succeeds        *)
(* unless the store fails.                                                  *)

ConcurrentArgs ==
    { a \in MappingArgs :
        \/ a.target_code = CodeT1 /\ a.source_code = CodeN1 /\ a.confidence \in {6, 9}
        \/ a.target_code = CodeT2 /\ a.confidence = 9 }

InitConcurrent ==
    /\ concepts = <<K6, K4>>
    /\ mappings = <<>>
    /\ resp = Idle
    /\ sessions = NoSessions
    /\ audit_logs = <<>>

\* add_mapping up to the await of the existence query and the test on it
BeginAddMapping(s, a) ==
    /\ sessions[s].pc # "checked"
    /\ LET existing == ScalarOneOrNone(SelectMappingByKey(mappings, a))
       IN  sessions' = [sessions EXCEPT ![s] =
               IF existing.raised \/ existing.value # None
               THEN [pc |-> "done", args |-> a, ret |-> FALSE]
               ELSE [pc |-> "checked", args |-> a]]
    /\ UNCHANGED <<concepts, mappings, resp, audit_logs>>

\* add_mapping from self.db.add(mapping) to its return
CommitAddMapping(s, fault) ==
    /\ sessions[s].pc = "checked"
    /\ Len(mappings) < MaxMappings
    /\ IF fault # "none"
       THEN /\ sessions' = [sessions EXCEPT ![s] =
                   [pc |-> "done", args |-> sessions[s].args, ret |-> FALSE]]
            /\ UNCHANGED mappings
       ELSE /\ sessions' = [sessions EXCEPT ![s] =
                   [pc |-> "done", args |-> sessions[s].args, ret |-> TRUE]]
            /\ mappings' = Append(mappings, sessions[s].args)
    /\ UNCHANGED <<concepts, resp, audit_logs>>

NextConcurrent ==
    \/ \E s \in 1..NumSessions, a \in ConcurrentArgs : BeginAddMapping(s, a)
    \/ \E s \in 1..NumSessions, fault \in {"none", "commit"} :
           CommitAddMapping(s, fault)

SpecConcurrent == InitConcurrent /\ [][NextConcurrent]_vars

-----------------------------------------------------------------------------
(* Claims about translate and add_mapping.                                  *)

\* the indices of the Mapping rows whose source is (system, code)
SourceRows(system, code) ==
    {i \in 1..Len(mappings) :
        mappings[i].source_system = system /\ mappings[i].source_code = code}

\* the place a stable descending sort gives row j among the rows idx
ConfidenceRank(idx, j) ==
    1 + Cardinality({k \in idx : mappings[k].confidence > mappings[j].confidence})
      + Cardinality({k \in idx : k < j /\ mappings[k].confidence = mappings[j].confidence})

\* C1: translate returns its candidates in non-increasing order of
\* confidence, and candidates of equal confidence keep the order in which
\* the Mapping Store returned their rows.
C1_TranslateSortedStable ==
    (resp.op = "translate" /\ resp.status = 200) =>
        LET c == resp.candidates
            idx == SourceRows(resp.system, resp.code)
        IN  /\ \A i \in 1..(Len(c) - 1) : c[i].confidence >= c[i + 1].confidence
            /\ Len(c) = Cardinality(idx)
            /\ \A j \in idx :
                   /\ c[ConfidenceRank(idx, j)].target_system = mappings[j].target_system
                   /\ c[ConfidenceRank(idx, j)].target_code = mappings[j].target_code
                   /\ c[ConfidenceRank(idx, j)].confidence = mappings[j].confidence

\* three candidates, stored in another order than they are returned, two of
\* them with the same confidence
C1_Witness ==
    /\ resp.op = "translate" /\ resp.status = 200
    /\ Len(resp.candidates) = 3
    /\ Len(mappings) = 3
    /\ mappings[1].confidence < mappings[2].confidence
    /\ resp.candidates[1].confidence = resp.candidates[2].confidence
    /\ resp.candidates[2].confidence > resp.candidates[3].confidence

\* the candidate the claim expects for a Mapping row
ExpectedCandidate(m) ==
    LET stored == {k \in Range(concepts) :
                       k.system = m.target_system /\ k.code = m.target_code}
    IN  [target_system |-> m.target_system,
         target_code |-> m.target_code,
         target_display |-> IF stored = {} THEN None
                            ELSE Some((CHOOSE k \in stored : TRUE).display),
         equivalence |-> m.equivalence,
         confidence |-> m.confidence,
         method |-> m.method,
         evidence |-> m.evidence]

\* C2: translate returns exactly one candidate per Mapping row whose source
\* is (system, code) and none for another row, each carrying the row's
\* target, equivalence, confidence, method and evidence and the display of
\* the stored target Concept (absent when there is none); when no row
\* matches, the endpoint answers 200 with an empty parameter list.
C2_TranslateExactlyMatchingRows ==
    resp.op = "translate" =>
        LET c == resp.candidates
            idx == SourceRows(resp.system, resp.code)
            expected == {ExpectedCandidate(mappings[i]) : i \in idx}
        IN  /\ resp.status = 200
            /\ \A v \in Range(c) \cup expected :
                   Cardinality({p \in 1..Len(c) : c[p] = v})
                     = Cardinality({i \in idx : ExpectedCandidate(mappings[i]) = v})
            /\ (idx = {} => (c = <<>> /\ resp.parameter = <<>>))

\* a translation with two candidates, one with and one without a stored
\* target Concept, from a store that also holds a row of another source
C2_Witness ==
    /\ resp.op = "translate" /\ resp.status = 200
    /\ Len(resp.candidates) = 2
    /\ Len(mappings) = 3
    /\ \E p, q \in 1..2 :
           /\ resp.candidates[p].target_display = Some(K4.display)
           /\ resp.candidates[q].target_display = None

\* C3: in a sequence of add_mapping calls run one after another on a working
\* store, a call whose 4-tuple is not stored appends exactly one row and
\* returns true; a call whose 4-tuple is stored returns false and leaves the
\* store unchanged, whatever its other arguments; so the store never holds
\* two rows for one 4-tuple.
C3_AddMappingOncePerKey ==
    [][ (resp'.op = "add_mapping" /\ resp'.fault = "none") =>
            LET a == resp'.args
                present == \E i \in 1..Len(mappings) : KeyOf(mappings[i]) = KeyOf(a)
            IN  IF present
                THEN resp'.ret = FALSE /\ mappings' = mappings
                ELSE /\ resp'.ret = TRUE
                     /\ mappings' = Append(mappings, a)
                     /\ Cardinality({i \in 1..Len(mappings') :
                                        KeyOf(mappings'[i]) = KeyOf(a)}) = 1
      ]_vars

\* a second call for a stored 4-tuple, with other remaining arguments, was
\* answered false and the store holds the one first row
C3_Witness ==
    /\ resp.op = "add_mapping" /\ resp.fault = "none" /\ resp.ret = FALSE
    /\ \E i \in 1..Len(mappings) :
           /\ KeyOf(mappings[i]) = KeyOf(resp.args)
           /\ mappings[i] # resp.args
    /\ Cardinality({i \in 1..Len(mappings) :
                       KeyOf(mappings[i]) = KeyOf(resp.args)}) = 1

\* C4: concurrent add_mapping requests for one 4-tuple never leave a second
\* row for it in the Mapping Store.
C4_NoSecondRowForKey ==
    \A i, j \in 1..Len(mappings) :
        KeyOf(mappings[i]) = KeyOf(mappings[j]) => i = j

\* C5: every row of the Mapping Store has its confidence within [0.0, 1.0]
\* and its equivalence in the FHIR enumeration.
C5_MappingRowsValid ==
    \A i \in 1..Len(mappings) :
        /\ mappings[i].confidence >= 0 /\ mappings[i].confidence <= 10
        /\ mappings[i].equivalence \in Equivalences

-----------------------------------------------------------------------------
(* SQL ILIKE as NamasteLoader.search uses it: the pattern is the query      *)
(* between two % signs, so a % or _ inside the query is a wildcard too.     *)

RECURSIVE LikeMatch(_, _)
LikeMatch(p, s) ==
    IF p = <<>> THEN s = <<>>
    ELSE IF Head(p) = "%"
         THEN LikeMatch(Tail(p), s) \/ (s # <<>> /\ LikeMatch(p, Tail(s)))
         ELSE /\ s # <<>>
              /\ (Head(p) = "_" \/ Head(p) = Head(s))
              /\ LikeMatch(Tail(p), Tail(s))

\* a mutant of the text condition: LIKE without folding the case
ILike_casesensitive(value, query) == LikeMatch(<<"%">> \o query \o <<"%">>, value)

\* column.ilike(f"%{query}%") on a column value that is not NULL
ILike(value, query) == LikeMatch(<<"%">> \o Lower(query) \o <<"%">>, Lower(value))

\* Concept.metadata[field].astext: NULL for a missing object, a missing key
\* or a JSON null
AsText(c, field) ==
    IF c.metadata = None THEN None
    ELSE IF ~HasKey(c.metadata[1], field) THEN None
    ELSE IF Get(c.metadata[1], field).kind = "null" THEN None
    ELSE Some(Get(c.metadata[1], field).s)

-----------------------------------------------------------------------------
(* NamasteLoader._calculate_relevance_score, in tenths                      *)

Min(a, b) == IF a < b THEN a ELSE b

RECURSIVE MetadataScore(_, _, _, _)
\* the for loop over the four metadata fields, from field number n on
MetadataScore(score, query_lower, metadata, n) ==
    IF n > Len(MetadataFields) THEN score
    ELSE LET field == MetadataFields[n]
             hit == /\ HasKey(metadata, field)
                    /\ StrContains(Lower(PyStr(Get(metadata, field))), query_lower)
         IN  MetadataScore(IF hit THEN score + 2 ELSE score, query_lower, metadata, n + 1)

\* a mutant of the score: the branches on the code are independent ifs, so
\* their bonuses stack
_calculate_relevance_score_stacking(query, concept) ==
    LET query_lower == Lower(query)
        code == Lower(concept.code)
        display == Lower(concept.display)
        s1 == (IF code = query_lower THEN 10 ELSE 0)
              + (IF StartsWith(code, query_lower) THEN 9 ELSE 0)
              + (IF StrContains(code, query_lower) THEN 7 ELSE 0)
        s2 == IF display = query_lower THEN s1 + 8
              ELSE IF StartsWith(display, query_lower) THEN s1 + 6
              ELSE IF StrContains(display, query_lower) THEN s1 + 4
              ELSE s1
        s3 == IF /\ concept.definition # None
                 /\ concept.definition[1] # <<>>
                 /\ StrContains(Lower(concept.definition[1]), query_lower)
              THEN s2 + 3 ELSE s2
        s4 == IF /\ concept.system = SysNamaste
                 /\ concept.metadata # None
                 /\ concept.metadata[1] # {}
              THEN MetadataScore(s3, query_lower, concept.metadata[1], 1)
              ELSE s3
    IN  Min(s4, 10)

_calculate_relevance_score(query, concept) ==
    LET query_lower == Lower(query)
        code == Lower(concept.code)
        display == Lower(concept.display)
        \* if / elif / elif on the code
        s1 == IF code = query_lower THEN 10
              ELSE IF StartsWith(code, query_lower) THEN 9
              ELSE IF StrContains(code, query_lower) THEN 7
              ELSE 0
        \* if / elif / elif on the display
        s2 == IF display = query_lower THEN s1 + 8
              ELSE IF StartsWith(display, query_lower) THEN s1 + 6
              ELSE IF StrContains(display, query_lower) THEN s1 + 4
              ELSE s1
        \* concept.definition and query_lower in concept.definition.lower()
        s3 == IF /\ concept.definition # None
                 /\ concept.definition[1] # <<>>
                 /\ StrContains(Lower(concept.definition[1]), query_lower)
              THEN s2 + 3 ELSE s2
        \* concept.system == "namaste" and concept.metadata
        s4 == IF /\ concept.system = SysNamaste
                 /\ concept.metadata # None
                 /\ concept.metadata[1] # {}
              THEN MetadataScore(s3, query_lower, concept.metadata[1], 1)
              ELSE s3
    IN  Min(s4, 10)

-----------------------------------------------------------------------------
(* NamasteLoader.search                                                     *)

\* the WHERE clause: the optional system filter and the text conditions
SearchCondition(c, query, system) ==
    /\ system # None => c.system = system[1]
    /\ \/ ILike(c.display, query)
       \/ c.definition # None /\ ILike(c.definition[1], query)
       \/ ILike(c.code, query)
       \/ /\ system = None \/ system = Some(SysNamaste)
          /\ \E n \in 1..Len(MetadataFields) :
                 /\ AsText(c, MetadataFields[n]) # None
                 /\ ILike(AsText(c, MetadataFields[n])[1], query)

\* the rows the query returns: the first `limit` matching rows, in the
\* order of the table
SelectConcepts(cs, query, system, limit) ==
    LET idx == {i \in 1..Len(cs) : SearchCondition(cs[i], query, system)}
        ix == SelectIdx(Len(cs), idx)
    IN  [i \in 1..Min(limit, Len(ix)) |-> cs[ix[i]]]

\* select(Mapping) where the concept is the source pair or the target pair
SelectMappingsOfConcept_sourceonly(ms, c) ==
    LET idx == {i \in 1..Len(ms) :
                    ms[i].source_system = c.system /\ ms[i].source_code = c.code}
        ix == SelectIdx(Len(ms), idx)
    IN  [i \in 1..Len(ix) |-> ms[ix[i]]]

SelectMappingsOfConcept(ms, c) ==
    LET idx == {i \in 1..Len(ms) :
                    \/ ms[i].source_system = c.system /\ ms[i].source_code = c.code
                    \/ ms[i].target_system = c.system /\ ms[i].target_code = c.code}
        ix == SelectIdx(Len(ms), idx)
    IN  [i \in 1..Len(ix) |-> ms[ix[i]]]

\* insert x into a list sorted by descending relevance_score, after every
\* element that does not rank below it
InsertByRelevance(sorted, x) ==
    LET n == Cardinality({i \in 1..Len(sorted) :
                             sorted[i].relevance_score >= x.relevance_score})
    IN  SubSeq(sorted, 1, n) \o <<x>> \o SubSeq(sorted, n + 1, Len(sorted))

RECURSIVE SortByRelevance(_)
\* list.sort(key=relevance_score or 0, reverse=True): stable, descending
SortByRelevance(s) ==
    IF s = <<>> THEN <<>>
    ELSE InsertByRelevance(SortByRelevance(SubSeq(s, 1, Len(s) - 1)), s[Len(s)])

search(cs, ms, query, system, limit) ==
    LET rows == SelectConcepts(cs, query, system, limit)
        search_results ==
            [i \in 1..Len(rows) |->
                [concept |-> rows[i],
                 mappings |-> SelectMappingsOfConcept(ms, rows[i]),
                 relevance_score |-> _calculate_relevance_score(query, rows[i])]]
    IN  SortByRelevance(search_results)

-----------------------------------------------------------------------------
(* ICD11Client.search.  The provider's answer is an input: a transport     *)
(* failure, a body that is not JSON, or a JSON object that may hold a list  *)
(* of entities under destinationEntities.                                   *)

\* an entity of the answer; is_object is FALSE for a JSON value that is not
\* an object
Entity(is_object, id, theCode, title) ==
    [is_object |-> is_object, id |-> id, theCode |-> theCode, title |-> title,
     definition |-> <<>>]

E1 == Entity(TRUE, <<"1">>, <<"1", "a", "b">>, <<"a", "b">>)

E2 == Entity(TRUE, <<>>, <<"2", "x">>, <<"x", "a">>)

ENoCode == Entity(TRUE, <<"3">>, <<>>, <<"a">>)

ENotObject == Entity(FALSE, <<>>, <<>>, <<>>)

ProviderOutcomes ==
    { [kind |-> "http_error", has_key |-> FALSE, entities |-> <<>>],
      [kind |-> "timeout", has_key |-> FALSE, entities |-> <<>>],
      [kind |-> "bad_json", has_key |-> FALSE, entities |-> <<>>],
      [kind |-> "ok", has_key |-> FALSE, entities |-> <<>>],
      [kind |-> "ok", has_key |-> TRUE, entities |-> <<>>],
      [kind |-> "ok", has_key |-> TRUE, entities |-> <<E1>>],
      [kind |-> "ok", has_key |-> TRUE, entities |-> <<ENoCode, E1, ENotObject, E2>>] }

\* the provider was not asked
NotCalled == [kind |-> "not_called", has_key |-> FALSE, entities |-> <<>>]

\* ICD11Client._parse_icd11_entity: None for an entity without code or
\* title and for one that is not an object (the AttributeError is caught)
_parse_icd11_entity(entity) ==
    IF ~entity.is_object THEN None
    ELSE IF entity.theCode = <<>> \/ entity.title = <<>> THEN None
    ELSE Some([system |-> SysIcd11,
               code |-> entity.theCode,
               display |-> entity.title,
               definition |-> Some(entity.definition),
               metadata |-> Some(IF entity.id # <<>>
                                 THEN { <<"icd11_id", JStr(entity.id)>> }
                                 ELSE {})])

RECURSIVE ParseEntities(_)
ParseEntities(entities) ==
    IF entities = <<>> THEN <<>>
    ELSE _parse_icd11_entity(Head(entities)) \o ParseEntities(Tail(entities))

\* a mutant of the client: a transport failure is not caught
icd11_search_raising(outcome, limit) ==
    IF outcome.kind \in {"http_error", "timeout"}
    THEN [raised |-> TRUE, concepts |-> <<>>]
    ELSE IF outcome.kind = "ok" /\ outcome.has_key
    THEN [raised |-> FALSE, concepts |-> ParseEntities(Take(outcome.entities, limit))]
    ELSE [raised |-> FALSE, concepts |-> <<>>]

\* ICD11Client.search: every exception is caught and answered with []
icd11_search(outcome, limit) ==
    IF outcome.kind \in {"http_error", "timeout"}
    THEN [raised |-> FALSE, concepts |-> <<>>]
    ELSE IF outcome.kind = "bad_json"
    THEN [raised |-> FALSE, concepts |-> <<>>]
    ELSE IF outcome.has_key
    THEN [raised |-> FALSE, concepts |-> ParseEntities(Take(outcome.entities, limit))]
    ELSE [raised |-> FALSE, concepts |-> <<>>]

-----------------------------------------------------------------------------
(* routes/lookup.py: search_terms                                           *)

\* a mutant of the endpoint: the merged list is cut to `limit` before it is
\* sorted
MergeResults_cutfirst(all_results, limit) ==
    SortByRelevance(Take(all_results, limit))

\* all_results.sort(...) followed by all_results[:limit]
MergeResults(all_results, limit) ==
    Take(SortByRelevance(all_results), limit)

\* a mutant of the endpoint: the provider is asked whatever the system is
AsksProvider_always(system) == TRUE

\* not system or system in ["icd11", "all"]
AsksProvider(system) == system = None \/ system[1] \in {SysIcd11, "all"}

\* not system or system in ["namaste", "all"]
AsksLocal(system) == system = None \/ system[1] \in {SysNamaste, "all"}

\* the SearchResult built for a concept of the provider
ExternalResult(concept_data) ==
    [concept |-> concept_data, mappings |-> <<>>, relevance_score |-> 5]

search_terms(cs, ms, q, system, limit, outcome) ==
    LET namaste_results ==
            IF AsksLocal(system) THEN search(cs, ms, q, Some(SysNamaste), limit)
            ELSE <<>>
        icd11 == IF AsksProvider(system) THEN icd11_search(outcome, limit)
                 ELSE [raised |-> FALSE, concepts |-> <<>>]
        icd11_results ==
            [i \in 1..Len(icd11.concepts) |-> ExternalResult(icd11.concepts[i])]
        all_results == MergeResults(namaste_results \o icd11_results, limit)
        consulted == (IF AsksLocal(system) THEN {"local"} ELSE {})
                     \cup (IF AsksProvider(system) THEN {"provider"} ELSE {})
        provider == IF AsksProvider(system) THEN outcome ELSE NotCalled
    IN  IF icd11.raised
        THEN [op |-> "search", query |-> q, system |-> system, limit |-> limit,
              provider |-> provider, consulted |-> consulted,
              status |-> 500, results |-> <<>>, total_results |-> 0]
        ELSE [op |-> "search", query |-> q, system |-> system, limit |-> limit,
              provider |-> provider, consulted |-> consulted,
              status |-> 200, results |-> all_results,
              total_results |-> Len(all_results)]

-----------------------------------------------------------------------------
(* NamasteLoader.load_from_csv, for a file of one row: the row is skipped   *)
(* when its (namaste, code) is stored, else inserted and committed.         *)

load_from_csv(cs, row) ==
    LET existing == ScalarOneOrNone(SelectConcept(cs, SysNamaste, row.code))
    IN  IF existing.raised
        THEN [concepts |-> cs, loaded |-> 0, skipped |-> 1]
        ELSE IF existing.value # None
        THEN [concepts |-> cs, loaded |-> 0, skipped |-> 1]
        ELSE [concepts |-> Append(cs, NewConcept(row)),
              loaded |-> 1, skipped |-> 0]

-----------------------------------------------------------------------------
(* Specification SpecSearch: concepts are loaded and searches are served.   *)

CsvRows == {R2, R3, R5, R6}

SearchQueries == { <<"a", "b">>, <<"A", "B">>, <<"a">>, <<"x">>, <<"_">> }

SearchSystems == {None, Some(SysNamaste), Some(SysIcd11), Some("all")}

\* the Mapping Store the searches run against
SearchMappings ==
    << [source_system |-> SysNamaste, source_code |-> CodeN1,
        target_system |-> SysIcd11, target_code |-> CodeT1,
        equivalence |-> "relatedto", confidence |-> 8,
        method |-> Some("expert_review"), evidence |-> None, curator |-> None],
       [source_system |-> SysIcd11, source_code |-> CodeT1,
        target_system |-> SysNamaste, target_code |-> CodeN2,
        equivalence |-> "wider", confidence |-> 6,
        method |-> None, evidence |-> None, curator |-> None] >>

InitSearch ==
    /\ concepts \in {<<>>, <<K4>>, <<K1>>}
    /\ mappings = SearchMappings
    /\ resp = Idle
    /\ sessions = NoSessions
    /\ audit_logs = <<>>

LoadConcept(row) ==
    LET r == load_from_csv(concepts, row)
    IN  /\ resp = Idle
        /\ Len(r.concepts) <= MaxConcepts
        /\ concepts' = r.concepts
        /\ resp' = [op |-> "load", loaded |-> r.loaded, skipped |-> r.skipped]
        /\ UNCHANGED <<mappings, sessions, audit_logs>>

SearchTerms(q, system, limit, outcome) ==
    /\ resp = Idle
    /\ resp' = search_terms(concepts, mappings, q, system, limit, outcome)
    /\ UNCHANGED <<concepts, mappings, sessions, audit_logs>>

NextSearch ==
    \/ \E row \in CsvRows : LoadConcept(row)
    \/ \E q \in SearchQueries, system \in SearchSystems,
          limit \in 1..MaxLimit, outcome \in ProviderOutcomes :
           SearchTerms(q, system, limit, outcome)
    \/ Reply

SpecSearch == InitSearch /\ [][NextSearch]_vars

-----------------------------------------------------------------------------
(* Specification SpecScore: the relevance score applied to a query and a    *)
(* concept drawn from all combinations of the field values below.           *)

ScoreQueries == { <<"a", "b">>, <<"A", "B">>, <<"b">>, <<"n", "o">> }

ScoreCodes == { <<"a", "b">>, <<"A", "B", "x">>, <<"x", "a", "B">>, <<"x">> }

ScoreDisplays == { <<"A", "b">>, <<"a", "b", "y">>, <<"y", "A", "B">>, <<"y">> }

ScoreDefinitions == { None, Some(<<>>), Some(<<"x", "A", "B">>), Some(<<"y">>) }

ScoreMetadata ==
    { None,
      Some({}),
      Some({ <<"sanskrit_name", JStr(<<"a", "b">>)>>,
             <<"english_name", JStr(<<"A", "B">>)>>,
             <<"category", JStr(<<"x", "a", "b">>)>>,
             <<"subcategory", JStr(<<"a", "b", "x">>)>> }),
      Some({ <<"sanskrit_name", JStr(<<"a", "b">>)>>,
             <<"english_name", JStr(<<"x">>)>>,
             <<"dosha_relation", JStr(<<"a", "b">>)>> }),
      Some({ <<"category", JNull>>,
             <<"subcategory", JStr(<<"A", "b">>)>> }) }

ScoreConcepts ==
    { [system |-> sys, code |-> code, display |-> display,
       definition |-> definition, metadata |-> metadata] :
        sys \in {SysNamaste, SysIcd11}, code \in ScoreCodes,
        display \in ScoreDisplays, definition \in ScoreDefinitions,
        metadata \in ScoreMetadata }

InitScore ==
    /\ concepts = <<>>
    /\ mappings = <<>>
    /\ resp \in { [op |-> "score_call", query |-> q, concept |-> c] :
                      q \in ScoreQueries, c \in ScoreConcepts }
    /\ sessions = NoSessions
    /\ audit_logs = <<>>

Score ==
    /\ resp.op = "score_call"
    /\ resp' = [op |-> "score", query |-> resp.query, concept |-> resp.concept,
                score |-> _calculate_relevance_score(resp.query, resp.concept)]
    /\ UNCHANGED <<concepts, mappings, sessions, audit_logs>>

NextScore == Score

SpecScore == InitScore /\ [][NextScore]_vars

-----------------------------------------------------------------------------
(* Claims about search.                                                     *)

\* is concept i a namaste concept whose code is the query, up to case
IsCodeQuery(i) ==
    /\ concepts[i].system = SysNamaste
    /\ Lower(concepts[i].code) = Lower(resp.query)

\* is concept i returned, with a relevance_score of at least `least`
Returned(i, least) ==
    \E p \in 1..Len(resp.results) :
        /\ resp.results[p].concept = concepts[i]
        /\ resp.results[p].relevance_score >= least

\* the stored namaste concepts the store query of the search matches
MatchingNamaste ==
    {i \in 1..Len(concepts) :
        SearchCondition(concepts[i], resp.query, Some(SysNamaste))}

CascadePart(text, q, exact, starts, contains) ==
    IF Lower(text) = Lower(q) THEN exact
    ELSE IF StartsWith(Lower(text), Lower(q)) THEN starts
    ELSE IF StrContains(Lower(text), Lower(q)) THEN contains
    ELSE 0

DefinitionPart(c, q) ==
    IF c.definition # None /\ StrContains(Lower(c.definition[1]), Lower(q))
    THEN 3 ELSE 0

MetadataPart(c, q) ==
    IF c.system = SysNamaste /\ c.metadata # None
    THEN 2 * Cardinality({f \in {"sanskrit_name", "english_name",
                                 "category", "subcategory"} :
                              /\ HasKey(c.metadata[1], f)
                              /\ StrContains(Lower(PyStr(Get(c.metadata[1], f))),
                                             Lower(q))})
    ELSE 0

\* C7: the relevance score is min(1.0, code part + display part + definition
\* part + metadata part), with the code part 1.0 / 0.9 / 0.7 and the display
\* part 0.8 / 0.6 / 0.4 by an exclusive cascade, the definition part 0.3 and
\* the metadata part 0.2 per matching field of a namaste concept; so it lies
\* in [0.0, 1.0].
C7_RelevanceScoreFormula ==
    resp.op = "score" =>
        LET c == resp.concept
            q == resp.query
            total == CascadePart(c.code, q, 10, 9, 7)
                     + CascadePart(c.display, q, 8, 6, 4)
                     + DefinitionPart(c, q) + MetadataPart(c, q)
        IN  /\ resp.score = (IF total > 10 THEN 10 ELSE total)
            /\ resp.score >= 0 /\ resp.score <= 10

\* a code that starts with the query, a display and a definition that
\* contain it and four matching metadata fields: the sum is above 1.0 and is
\* clamped
C7_Witness ==
    /\ resp.op = "score"
    /\ CascadePart(resp.concept.code, resp.query, 10, 9, 7) = 9
    /\ CascadePart(resp.concept.display, resp.query, 8, 6, 4) = 4
    /\ DefinitionPart(resp.concept, resp.query) = 3
    /\ MetadataPart(resp.concept, resp.query) = 8
    /\ resp.score = 10

\* the local results and the provider's results of the search in resp, one
\* after the other
Concatenation ==
    LET local == IF "local" \in resp.consulted
                 THEN search(concepts, mappings, resp.query, Some(SysNamaste), resp.limit)
                 ELSE <<>>
        external == IF "provider" \in resp.consulted
                    THEN icd11_search(resp.provider, resp.limit).concepts
                    ELSE <<>>
    IN  local \o [i \in 1..Len(external) |->
                     [concept |-> external[i], mappings |-> <<>>,
                      relevance_score |-> 5]]

\* the place a stable descending sort gives element j of cat
RelevanceRank(cat, j) ==
    1 + Cardinality({k \in 1..Len(cat) :
                        cat[k].relevance_score > cat[j].relevance_score})
      + Cardinality({k \in 1..(j - 1) :
                        cat[k].relevance_score = cat[j].relevance_score})

\* C8: the response is the concatenation of local and external results
\* (external ones with score 0.5 and no mappings) in non-increasing order
\* of relevance_score, ties in concatenation order, cut to `limit`, and
\* total_results is the number of results returned.
C8_MergedOrderAndLimit ==
    (resp.op = "search" /\ resp.status = 200) =>
        LET cat == Concatenation
            r == resp.results
        IN  /\ Len(r) = (IF Len(cat) < resp.limit THEN Len(cat) ELSE resp.limit)
            /\ \A j \in 1..Len(cat) :
                   RelevanceRank(cat, j) <= resp.limit => r[RelevanceRank(cat, j)] = cat[j]
            /\ \A i \in 1..(Len(r) - 1) :
                   r[i].relevance_score >= r[i + 1].relevance_score
            /\ Len(r) <= resp.limit
            /\ resp.total_results = Len(r)

\* a full response in which a provider result ranks above a stored concept
\* that matched with a lower score and was cut off
C8_Witness ==
    /\ resp.op = "search" /\ resp.status = 200
    /\ Len(resp.results) = 2 /\ resp.limit = 2
    /\ resp.results[1].relevance_score > 5
    /\ resp.results[2].concept.system = SysIcd11
    /\ \E i \in 1..Len(concepts) :
           /\ SearchCondition(concepts[i], resp.query, Some(SysNamaste))
           /\ _calculate_relevance_score(resp.query, concepts[i]) < 5

ProviderFailed == resp.provider.kind \in {"http_error", "timeout", "bad_json"}

EmptyAnswer == [kind |-> "ok", has_key |-> TRUE, entities |-> <<>>]

\* C9: when the provider's search fails, the search still succeeds and
\* returns what it would return had the provider answered with an empty
\* sequence: the local results only.
C9_ProviderFailureDegrades ==
    (resp.op = "search" /\ ProviderFailed) =>
        /\ resp.status = 200
        /\ resp.results =
               search_terms(concepts, mappings, resp.query, resp.system,
                            resp.limit, EmptyAnswer).results
        /\ \A p \in 1..Len(resp.results) :
               resp.results[p].concept \in Range(concepts)

\* a search of both sources whose provider timed out and that returned
\* local results
C9_Witness ==
    /\ resp.op = "search" /\ resp.status = 200
    /\ resp.provider.kind = "timeout"
    /\ resp.system = None
    /\ Len(resp.results) >= 1

\* C10: with system = namaste the provider is not asked and every result is
\* a namaste concept; with system = icd11 the Concept Store is not queried
\* and every result comes from the provider; with no system both are asked.
C10_SourceRouting ==
    resp.op = "search" =>
        /\ resp.system = Some(SysNamaste) =>
               /\ resp.consulted = {"local"}
               /\ resp.provider = NotCalled
               /\ \A p \in 1..Len(resp.results) :
                      resp.results[p].concept.system = SysNamaste
        /\ resp.system = Some(SysIcd11) =>
               /\ resp.consulted = {"provider"}
               /\ \A p \in 1..Len(resp.results) :
                      /\ Some(resp.results[p].concept)
                            \in {_parse_icd11_entity(resp.provider.entities[n]) :
                                    n \in 1..Len(resp.provider.entities)}
                      /\ resp.results[p].mappings = <<>>
        /\ resp.system = None => resp.consulted = {"local", "provider"}

\* a search with system = icd11 that returned provider results although a
\* stored concept matches the query
C10_Witness ==
    /\ resp.op = "search" /\ resp.status = 200
    /\ resp.system = Some(SysIcd11)
    /\ Len(resp.results) >= 1
    /\ \E i \in 1..Len(concepts) :
           SearchCondition(concepts[i], resp.query, Some(SysNamaste))

\* the rows of the Mapping store that name the concept as source or as target
RelatedRows(c) ==
    {i \in 1..Len(mappings) :
        \/ <<mappings[i].source_system, mappings[i].source_code>> = <<c.system, c.code>>
        \/ <<mappings[i].target_system, mappings[i].target_code>> = <<c.system, c.code>>}

\* C11: the mapping list attached to a locally-sourced search result is
\* exactly the Mapping rows whose source pair or target pair is the concept's
\* (system, code): none is missing and no unrelated row is attached.
C11_AttachedMappingsExact ==
    (resp.op = "search" /\ resp.status = 200) =>
        \A n \in 1..Len(resp.results) :
            LET r == resp.results[n]
            IN  r.concept.system = SysNamaste =>
                    /\ Len(r.mappings) = Cardinality(RelatedRows(r.concept))
                    /\ \A i \in 1..Len(mappings) :
                           i \in RelatedRows(r.concept)
                               <=> mappings[i] \in Range(r.mappings)

\* a returned local concept that is the target of one row while the store
\* also holds a row that does not name it
C11_Witness ==
    /\ resp.op = "search" /\ resp.status = 200
    /\ \E n \in 1..Len(resp.results) :
           LET r == resp.results[n]
           IN  /\ r.concept.system = SysNamaste
               /\ Len(r.mappings) = 1
               /\ <<r.mappings[1].target_system, r.mappings[1].target_code>>
                      = <<r.concept.system, r.concept.code>>
               /\ \E i \in 1..Len(mappings) : i \notin RelatedRows(r.concept)

-----------------------------------------------------------------------------
(* security/auth.py.  An Authorization header is None or the sequence of   *)
(* its words (the text split at single spaces), so "Bearer test" is        *)
(* <<"Bearer", "test">> and "Bearer " is <<"Bearer", "">>.  A message is   *)
(* the sequence of the parts it is formatted from.                         *)

\* str.startswith("Bearer ")
StartsWithBearer(words) == Len(words) >= 2 /\ words[1] = "Bearer"

extract_token_from_header(authorization) ==
    IF authorization = None \/ authorization[1] = <<"">>
    THEN None
    ELSE IF StartsWithBearer(authorization[1])
    THEN Some(Tail(authorization[1]))
    ELSE None

\* what the ABHA introspection endpoint does for a token, when one is
\* configured in the settings
Introspections ==
    { [kind |-> "unconfigured", actor |-> ""],
      [kind |-> "active", actor |-> "Dr. A"],
      [kind |-> "inactive", actor |-> ""],
      [kind |-> "unavailable", actor |-> ""] }

_verify_with_abha_introspection(token, introspection) ==
    CASE introspection.kind = "active" ->
            [raised |-> FALSE, message |-> <<>>, actor |-> introspection.actor]
      [] introspection.kind = "inactive" ->
            [raised |-> TRUE,
             message |-> <<"Token verification error: ", "Token is not active">>,
             actor |-> ""]
      [] OTHER ->
            [raised |-> TRUE,
             message |-> <<"Token verification service unavailable: ", "error">>,
             actor |-> ""]

verify_abha_token(token, introspection) ==
    IF token = None \/ token[1] = <<"">>
    THEN [raised |-> TRUE, message |-> <<"No token provided">>, actor |-> ""]
    ELSE LET stripped == IF StartsWithBearer(token[1])
                         THEN Tail(token[1]) ELSE token[1]
         IN  IF stripped = <<"test">>
             THEN [raised |-> FALSE, message |-> <<>>, actor |-> "Dr. Demo"]
             ELSE IF introspection.kind # "unconfigured"
             THEN _verify_with_abha_introspection(stripped, introspection)
             ELSE [raised |-> TRUE,
                   message |-> <<"Token verification not configured">>,
                   actor |-> ""]

-----------------------------------------------------------------------------
(* security/audit.py.  The audit log is the sequence of AuditLog rows; a    *)
(* detail dictionary is a set of <<key, value>> pairs.  The timestamp of a  *)
(* detail is left out and an elapsed time is the value "elapsed".           *)

\* ACTIONS of audit.py (ACTIONS is a reserved word of the language)
AUDIT_ACTIONS == [CREATE |-> "create", UPLOAD |-> "upload"]

RESOURCE_TYPES == [BUNDLE |-> "Bundle"]

\* the dictionary of the given <<key, Optional value>> pairs without the
\* None values
create_audit_detail(fields) ==
    { <<f[1], f[2][1]>> : f \in {g \in fields : g[2] # None} }

\* a mutant: the rollback after a failed commit undoes the last stored row
record_audit_undoing(log, actor, action, resource_type, resource_id, detail, fault) ==
    IF fault
    THEN [raised |-> TRUE, id |-> 0, log |-> SubSeq(log, 1, Len(log) - 1)]
    ELSE LET audit_entry == [id |-> Len(log) + 1,
                             actor |-> actor,
                             action |-> action,
                             resource_type |-> resource_type,
                             resource_id |-> resource_id,
                             detail |-> detail]
         IN  [raised |-> FALSE, id |-> audit_entry.id,
              log |-> Append(log, audit_entry)]

\* fault: the commit of the audit row fails, record_audit rolls back and
\* raises again; log is the table as the call leaves it
record_audit(log, actor, action, resource_type, resource_id, detail, fault) ==
    IF fault
    THEN [raised |-> TRUE, id |-> 0, log |-> log]
    ELSE LET audit_entry == [id |-> Len(log) + 1,
                             actor |-> actor,
                             action |-> action,
                             resource_type |-> resource_type,
                             resource_id |-> resource_id,
                             detail |-> detail]
         IN  [raised |-> FALSE, id |-> audit_entry.id,
              log |-> Append(log, audit_entry)]

-----------------------------------------------------------------------------
(* routes/bundle_upload.py: the uploaded FHIR Bundle.  A JSON value the     *)
(* handler reads with .get is kept with its shape: a key can be absent,     *)
(* hold an object (or list) of the expected kind, or hold a value of        *)
(* another kind ("invalid"), on which .get or the iteration raises.         *)

NamasteUri == "http://namaste.example.com/fhir/CodeSystem/namaste"

Icd11Uri == "http://terminology.hl7.org/CodeSystem/icd11"

\* one element of code.coding; code is None when the key is missing
Coding(system, code, display) ==
    [system |-> system, code |-> code, display |-> display,
     userSelected |-> None]

CodeableConcept(kind, coding) == [kind |-> kind, coding |-> coding]

Meta(kind, extension) == [kind |-> kind, extension |-> extension]

Resource(resourceType, id, code, meta) ==
    [resourceType |-> resourceType, id |-> id, code |-> code, meta |-> meta]

\* entry.get("resource", {}) of an entry without the key
EmptyResource ==
    Resource(None, None, CodeableConcept("absent", <<>>), Meta("absent", <<>>))

\* a bundle entry: its resource is an object, is absent, or is not an object
Entry(shape, resource) == [shape |-> shape, resource |-> resource]

Bundle(resourceType, kind, items) ==
    [resourceType |-> resourceType, entry |-> [kind |-> kind, items |-> items]]

\* the extension stamped on a processed Condition
ProcessingStamp ==
    [url |-> "http://namaste.example.com/fhir/StructureDefinition/bundle-processing",
     valueString |-> "Processed by NAMASTE ICD Service"]

\* resource.get("id", str(uuid.uuid4()))
ResourceId(resource) == IF resource.id # None THEN resource.id[1] ELSE "uuid"

\* a mutant: the last coding of the NAMASTE system is taken
NamasteCoding_last(coding) ==
    LET idx == {i \in 1..Len(coding) : coding[i].system = NamasteUri}
    IN  IF idx = {} THEN None
        ELSE Some(coding[CHOOSE i \in idx : \A j \in idx : j <= i])

\* the first coding of the Condition whose system is the NAMASTE URI, as a
\* sequence of length 0 or 1
NamasteCoding(coding) ==
    LET idx == {i \in 1..Len(coding) : coding[i].system = NamasteUri}
    IN  IF idx = {} THEN None
        ELSE Some(coding[CHOOSE i \in idx : \A j \in idx : i <= j])

\* the coding built from the first translation candidate
Icd11Coding(candidate) ==
    [system |-> Icd11Uri,
     code |-> Some(candidate.target_code),
     display |-> IF candidate.target_display # None
                 THEN candidate.target_display[1] ELSE <<>>,
     userSelected |-> Some(FALSE)]

\* a mutant: the new coding is put in front of the existing ones
AppendCoding_front(resource, coding) ==
    [resource EXCEPT !.code = CodeableConcept("object", <<coding>> \o @.coding)]

\* resource["code"]["coding"].append(icd11_coding)
AppendCoding(resource, coding) ==
    [resource EXCEPT !.code = CodeableConcept("object", Append(@.coding, coding))]

\* the Condition branch of the entry loop up to the except clause.
\* translate_fault: the store fails while translate runs.  The result tells
\* whether an exception was raised, the resource as the branch leaves it,
\* and by how much mappings_added was incremented before the branch ended.
ProcessCondition(cs, ms, resource, translate_fault) ==
    LET failed(r, added, why) ==
            [raised |-> TRUE, message |-> why, resource |-> r, added |-> added]
    IN  IF resource.code.kind = "invalid"
        THEN failed(resource, 0, "AttributeError")
        ELSE
        LET namaste_coding == NamasteCoding(resource.code.coding)
            code == IF namaste_coding # None THEN namaste_coding[1].code ELSE None
        IN  IF namaste_coding # None
               /\ (translate_fault
                   \/ (code # None /\ TranslateRaises(cs, ms, SysNamaste, code[1])))
            THEN failed(resource, 0, "translate failed")
            ELSE
            LET translations ==
                    IF namaste_coding # None /\ code # None
                    THEN translate(cs, ms, SysNamaste, code[1]) ELSE <<>>
                added == IF translations # <<>> THEN 1 ELSE 0
                coded == IF translations # <<>>
                         THEN AppendCoding(resource, Icd11Coding(translations[1]))
                         ELSE resource
            IN  IF coded.meta.kind = "invalid"
                THEN failed(coded, added, "AttributeError")
                ELSE [raised |-> FALSE, message |-> "",
                      resource |-> [coded EXCEPT !.meta =
                                       Meta("object",
                                            Append(@.extension, ProcessingStamp))],
                      added |-> added]

\* the consent reference: the id of the first Consent resource; the scan
\* raises at an entry whose resource is not an object
RECURSIVE ConsentScan(_)
ConsentScan(items) ==
    IF items = <<>>
    THEN [raised |-> FALSE, consent_ref |-> None]
    ELSE IF Head(items).shape = "invalid"
    THEN [raised |-> TRUE, consent_ref |-> None]
    ELSE IF Head(items).shape = "object"
            /\ Head(items).resource.resourceType = Some("Consent")
    THEN [raised |-> FALSE, consent_ref |-> Head(items).resource.id]
    ELSE ConsentScan(Tail(items))

\* a mutant: Consent resources are recorded as well
OtherResourceTypes_consent ==
    {"Observation", "DiagnosticReport", "Procedure", "Consent"}

\* the kinds of line 132, recorded without processing
OtherResourceTypes == {"Observation", "DiagnosticReport", "Procedure"}

\* a resource reference f"{resource_type}/{resource_id}"
Reference(resource_type, resource_id) == <<resource_type, "/", resource_id>>

\* the record of what the loop did with one entry
Step(resource, added, failed, audit) ==
    [resource |-> resource, added |-> added, failed |-> failed, audit |-> audit]

\* the local variables of upload_bundle the entry loop works on
LoopState(created_resources, errors, mappings_added, log, steps, aborted) ==
    [created_resources |-> created_resources, errors |-> errors,
     mappings_added |-> mappings_added, log |-> log, steps |-> steps,
     aborted |-> aborted]

\* a mutant: the per-entry record does not carry the consent reference
EntryAudit_noconsent(st, ctx, resource_type, resource_id, fault) ==
    LET r == record_audit(st.log, ctx.actor, AUDIT_ACTIONS.CREATE, resource_type,
                          resource_id,
                          create_audit_detail(
                              { <<"bundle_id", Some(ctx.bundle_id)>>,
                                <<"consent_ref", None>>,
                                <<"resource_type", resource_type>>,
                                <<"mappings_added", Some(st.mappings_added)>> }),
                          fault)
    IN  IF r.raised
        THEN [st EXCEPT !.errors =
                 Append(@, <<"Error recording audit for ", resource_type, "/",
                             resource_id, ": ", "audit failed">>),
                        !.log = r.log]
        ELSE [st EXCEPT !.log = r.log]

\* the per-entry audit: a CREATE record with the running mappings_added; a
\* failure to write it is appended to errors
EntryAudit(st, ctx, resource_type, resource_id, fault) ==
    LET r == record_audit(st.log, ctx.actor, AUDIT_ACTIONS.CREATE, resource_type,
                          resource_id,
                          create_audit_detail(
                              { <<"bundle_id", Some(ctx.bundle_id)>>,
                                <<"consent_ref", ctx.consent_ref>>,
                                <<"resource_type", resource_type>>,
                                <<"mappings_added", Some(st.mappings_added)>> }),
                          fault)
    IN  IF r.raised
        THEN [st EXCEPT !.errors =
                 Append(@, <<"Error recording audit for ", resource_type, "/",
                             resource_id, ": ", "audit failed">>),
                        !.log = r.log]
        ELSE [st EXCEPT !.log = r.log]

\* one iteration of the entry loop, for the entry at position i
ProcessEntry(cs, ms, st, ctx, entry, i) ==
    IF entry.shape = "invalid"
    THEN [st EXCEPT !.aborted = Some("AttributeError")]
    ELSE
    LET resource == IF entry.shape = "object" THEN entry.resource
                    ELSE EmptyResource
        resource_type == resource.resourceType
        resource_id == ResourceId(resource)
        audit_fault == i \in ctx.faults.entry_audit
        audited(s, r, added) ==
            LET a == EntryAudit(s, ctx, resource_type, resource_id, audit_fault)
            IN  [a EXCEPT !.steps =
                    Append(@, Step(r, added, FALSE,
                                   IF audit_fault THEN "failed" ELSE "written"))]
    IN  IF resource_type = Some("Condition")
        THEN LET c == ProcessCondition(cs, ms, resource,
                                       i \in ctx.faults.translate)
             IN  IF c.raised
                 THEN [st EXCEPT
                          !.mappings_added = @ + c.added,
                          !.errors = Append(@, <<"Error processing Condition ",
                                                 resource_id, ": ", c.message>>),
                          !.steps = Append(@, Step(c.resource, c.added, TRUE,
                                                   "skipped"))]
                 ELSE audited([st EXCEPT
                                  !.mappings_added = @ + c.added,
                                  !.created_resources =
                                      Append(@, Reference("Condition", resource_id))],
                              c.resource, c.added)
        ELSE IF resource_type # None /\ resource_type[1] \in OtherResourceTypes
        THEN audited([st EXCEPT !.created_resources =
                         Append(@, Reference(resource_type[1], resource_id))],
                     resource, 0)
        ELSE audited(st, resource, 0)

\* the entry loop: for entry in bundle.get("entry", []).  The state after
\* an entry is bound to a name before the loop goes on, so that it is
\* computed once.
RECURSIVE ProcessEntries(_, _, _, _, _, _)
ProcessEntries(cs, ms, st, ctx, items, i) ==
    IF i > Len(items) \/ st.aborted # None
    THEN st
    ELSE CHOOSE out \in
             { ProcessEntries(cs, ms, next, ctx, items, i + 1) :
                 next \in {ProcessEntry(cs, ms, st, ctx, items[i], i)} } : TRUE

\* str(uuid.uuid4()) for the bundle: an identifier no row of the audit log
\* carries yet
NewBundleId(log) == <<"bundle", Len(log) + 1>>

\* a mutant: the envelope is not validated
IsBundle_any(bundle) == TRUE

\* bundle.get("resourceType") != "Bundle" does not hold
IsBundle(bundle) == bundle.resourceType = Some("Bundle")

\* a mutant: a bundle without the entry key cannot be iterated
BundleEntries_required(bundle) ==
    IF bundle.entry.kind = "list"
    THEN [raised |-> FALSE, items |-> bundle.entry.items]
    ELSE [raised |-> TRUE, items |-> <<>>]

\* bundle.get("entry", []): the list to iterate, or a value that cannot be
\* iterated
BundleEntries(bundle) ==
    IF bundle.entry.kind = "invalid"
    THEN [raised |-> TRUE, items |-> <<>>]
    ELSE [raised |-> FALSE, items |-> bundle.entry.items]

\* what a call of upload_bundle yields: the HTTP status and detail, the body
\* of a BundleUploadResponse when the status is 200, and beside them the
\* steps the entry loop took, whether the error handler wrote its audit
\* record, and the audit log the call leaves
UploadResponse(status, detail, st, provenance_id, audit_id, handler_audit) ==
    [status |-> status, detail |-> detail, success |-> status = 200,
     created_resources |-> IF status = 200 THEN st.created_resources ELSE <<>>,
     provenance_id |-> provenance_id, audit_id |-> audit_id,
     mappings_added |-> IF status = 200 THEN st.mappings_added ELSE 0,
     errors |-> IF status = 200 THEN st.errors ELSE <<>>,
     steps |-> st.steps, handler_audit |-> handler_audit, log |-> st.log]

\* a mutant: a failure of the handler's audit write replaces the error
ErrorHandler_masking(st, actor, bundle_id, message, fault) ==
    LET r == record_audit(st.log, actor, AUDIT_ACTIONS.UPLOAD,
                          Some(RESOURCE_TYPES.BUNDLE), bundle_id,
                          create_audit_detail(
                              { <<"bundle_id", Some(bundle_id)>>,
                                <<"error_message", Some(message)>>,
                                <<"processing_time_ms", Some("elapsed")>> }),
                          fault)
    IN  IF r.raised
        THEN UploadResponse(500, <<"Error recording audit log">>,
                            [st EXCEPT !.log = r.log], None, None, "failed")
        ELSE UploadResponse(500, <<"Error processing bundle: ">> \o message,
                            [st EXCEPT !.log = r.log], None, None, "written")

\* the handler of every exception but HTTPException: one attempt to write
\* a failure record, whose own failure is passed over, then a 500
ErrorHandler(st, actor, bundle_id, message, fault) ==
    LET r == record_audit(st.log, actor, AUDIT_ACTIONS.UPLOAD,
                          Some(RESOURCE_TYPES.BUNDLE), bundle_id,
                          create_audit_detail(
                              { <<"bundle_id", Some(bundle_id)>>,
                                <<"error_message", Some(message)>>,
                                <<"processing_time_ms", Some("elapsed")>> }),
                          fault)
    IN  UploadResponse(500, <<"Error processing bundle: ">> \o message,
                       [st EXCEPT !.log = r.log],
                       None, None, IF r.raised THEN "failed" ELSE "written")

\* a mutant: the Provenance reference is put in front of the others
FinishUpload_provenancefirst(looped, actor, bundle_id, consent_ref, faults) ==
    IF looped.aborted # None
    THEN ErrorHandler([looped EXCEPT !.aborted = None], actor, bundle_id,
                      <<looped.aborted[1]>>, faults.handler_audit)
    ELSE
    LET provenance_id == "provenance-uuid"
        st == [looped EXCEPT !.created_resources =
                  <<Reference("Provenance", provenance_id)>> \o @]
        summary ==
            record_audit(st.log, actor, AUDIT_ACTIONS.UPLOAD,
                         Some(RESOURCE_TYPES.BUNDLE), bundle_id,
                         create_audit_detail(
                             { <<"bundle_id", Some(bundle_id)>>,
                               <<"consent_ref", consent_ref>>,
                               <<"resources_processed",
                                 Some(Len(st.created_resources))>>,
                               <<"mappings_added", Some(st.mappings_added)>>,
                               <<"processing_time_ms", Some("elapsed")>> }),
                         faults.summary_audit)
    IN  IF summary.raised
        THEN ErrorHandler([st EXCEPT !.log = summary.log], actor, bundle_id,
                          <<"audit failed">>, faults.handler_audit)
        ELSE UploadResponse(200, <<"Bundle processed successfully">>,
                            [st EXCEPT !.log = summary.log],
                            Some(provenance_id), Some(summary.id), "none")

\* the end of upload_bundle, after the entry loop: the Provenance
\* reference, the summary audit record and the response
FinishUpload(looped, actor, bundle_id, consent_ref, faults) ==
    IF looped.aborted # None
    THEN ErrorHandler([looped EXCEPT !.aborted = None], actor, bundle_id,
                      <<looped.aborted[1]>>, faults.handler_audit)
    ELSE
    LET provenance_id == "provenance-uuid"
        st == [looped EXCEPT !.created_resources =
                  Append(@, Reference("Provenance", provenance_id))]
        summary ==
            record_audit(st.log, actor, AUDIT_ACTIONS.UPLOAD,
                         Some(RESOURCE_TYPES.BUNDLE), bundle_id,
                         create_audit_detail(
                             { <<"bundle_id", Some(bundle_id)>>,
                               <<"consent_ref", consent_ref>>,
                               <<"resources_processed",
                                 Some(Len(st.created_resources))>>,
                               <<"mappings_added", Some(st.mappings_added)>>,
                               <<"processing_time_ms", Some("elapsed")>> }),
                         faults.summary_audit)
    IN  IF summary.raised
        THEN ErrorHandler([st EXCEPT !.log = summary.log], actor, bundle_id,
                          <<"audit failed">>, faults.handler_audit)
        ELSE UploadResponse(200, <<"Bundle processed successfully">>,
                            [st EXCEPT !.log = summary.log],
                            Some(provenance_id), Some(summary.id), "none")

\* upload_bundle: the response and the audit log it leaves (field log)
upload_bundle(cs, ms, log, bundle, authorization, introspection, faults) ==
    LET bundle_id == NewBundleId(log)
        start == LoopState(<<>>, <<>>, 0, log, <<>>, None)
        user_info == verify_abha_token(extract_token_from_header(authorization),
                                       introspection)
        entries == BundleEntries(bundle)
        scan == ConsentScan(entries.items)
    IN  IF user_info.raised
        THEN ErrorHandler(start, "unknown", bundle_id, user_info.message,
                          faults.handler_audit)
        ELSE IF ~IsBundle(bundle)
        THEN UploadResponse(400,
                            <<"Invalid bundle: resourceType must be 'Bundle'">>,
                            start, None, None, "none")
        ELSE IF entries.raised
        THEN ErrorHandler(start, user_info.actor, bundle_id, <<"TypeError">>,
                          faults.handler_audit)
        ELSE IF scan.raised
        THEN ErrorHandler(start, user_info.actor, bundle_id, <<"AttributeError">>,
                          faults.handler_audit)
        ELSE
        LET ctx == [actor |-> user_info.actor, bundle_id |-> bundle_id,
                    consent_ref |-> scan.consent_ref, faults |-> faults]
        IN  CHOOSE out \in
                { FinishUpload(looped, user_info.actor, bundle_id,
                               scan.consent_ref, faults) :
                    looped \in {ProcessEntries(cs, ms, start, ctx,
                                               entries.items, 1)} } : TRUE

-----------------------------------------------------------------------------
(* Specification SpecUpload: bundles are uploaded to a service whose        *)
(* Concept and Mapping stores are fixed; the audit log grows.               *)

\* an upload is taken while the audit log holds fewer rows than this
MaxAuditLogs == 1

SnomedUri == "http://snomed.info/sct"

CodingOther == Coding(SnomedUri, Some(<<"s">>), <<"S">>)

CodingN1 == Coding(NamasteUri, Some(CodeN1), <<"n", "1">>)

CodingN2 == Coding(NamasteUri, Some(CodeN2), <<"n", "2">>)

CodingUnmapped == Coding(NamasteUri, Some(<<"z">>), <<"z">>)

CodingNoCode == Coding(NamasteUri, None, <<>>)

NoMeta == Meta("absent", <<>>)

Condition(id, code, meta) == Entry("object", Resource(Some("Condition"), id, code, meta))

CondMapped ==
    Condition(Some("c1"), CodeableConcept("object", <<CodingOther, CodingN1>>), NoMeta)

CondMappedStamped ==
    Condition(None, CodeableConcept("object", <<CodingN2, CodingOther>>),
              Meta("object", <<[url |-> "u", valueString |-> "v"]>>))

CondTwoLocal ==
    Condition(Some("c3"), CodeableConcept("object", <<CodingUnmapped, CodingN1>>),
              NoMeta)

CondMappedFirst ==
    Condition(Some("c4"), CodeableConcept("object", <<CodingN1, CodingN2>>), NoMeta)

CondNoLocal ==
    Condition(Some("c5"), CodeableConcept("object", <<CodingOther>>), NoMeta)

CondNoCodeKey == Condition(Some("c6"), CodeableConcept("absent", <<>>), NoMeta)

CondNoCodeInCoding ==
    Condition(Some("c7"), CodeableConcept("object", <<CodingNoCode>>), NoMeta)

CondBadCode == Condition(Some("c8"), CodeableConcept("invalid", <<>>), NoMeta)

CondBadMeta ==
    Condition(Some("c9"), CodeableConcept("object", <<CodingN1>>),
              Meta("invalid", <<>>))

Plain(resourceType, id) ==
    Entry("object", Resource(resourceType, id, CodeableConcept("absent", <<>>), NoMeta))

Observation == Plain(Some("Observation"), Some("o1"))

Consent == Plain(Some("Consent"), Some("consent-1"))

ConsentOther == Plain(Some("Consent"), Some("consent-2"))

Patient == Plain(Some("Patient"), None)

DiagnosticReport == Plain(Some("DiagnosticReport"), Some("d1"))

Procedure == Plain(Some("Procedure"), None)

NoResource == Entry("absent", EmptyResource)

NotAnObject == Entry("invalid", EmptyResource)

UploadBundles ==
    { Bundle(Some("Bundle"), "list", items) :
        items \in { <<>>,
                    <<CondMapped>>, <<CondMappedStamped>>, <<CondTwoLocal>>,
                    <<CondMappedFirst>>, <<CondNoLocal>>, <<CondNoCodeKey>>,
                    <<CondNoCodeInCoding>>,
                    <<Observation, NoResource>>,
                    <<Patient, Consent>>,
                    <<DiagnosticReport, Consent, Procedure>>,
                    <<CondMapped, ConsentOther, Consent>>,
                    <<CondBadCode, CondMapped>>,
                    <<CondBadMeta, Observation>>,
                    <<Consent, CondMapped, CondNoLocal>>,
                    <<Consent, NotAnObject>>,
                    <<NotAnObject>> } }
    \cup { Bundle(Some("Bundle"), "absent", <<>>),
           Bundle(Some("Bundle"), "invalid", <<>>),
           Bundle(Some("Patient"), "list", <<CondMapped>>),
           Bundle(None, "absent", <<>>) }

\* the bundles uploaded with each of the other credentials
FewBundles ==
    { Bundle(Some("Bundle"), "absent", <<>>),
      Bundle(Some("Bundle"), "list", <<CondMapped>>),
      Bundle(Some("Patient"), "list", <<CondMapped>>) }

\* an Authorization header and what the introspection endpoint does with it
DevCredentials == <<Some(<<"Bearer", "test">>), "unconfigured">>

OtherCredentials ==
    { <<None, "unconfigured">>,
      <<Some(<<"test">>), "unconfigured">>,
      <<Some(<<"Bearer", "Bearer", "test">>), "unconfigured">>,
      <<Some(<<"Bearer", "abc">>), "unconfigured">>,
      <<Some(<<"Bearer", "abc">>), "active">>,
      <<Some(<<"Bearer", "abc">>), "inactive">> }

\* the faults an upload of the bundle can meet: the store failing while a
\* Condition is translated, and audit writes failing
UploadFaults(bundle) ==
    LET n == Len(bundle.entry.items)
        conditions == {i \in 1..n :
                          bundle.entry.items[i].resource.resourceType
                              = Some("Condition")}
    IN  [translate : {f \in SUBSET conditions : Cardinality(f) <= 1},
         entry_audit : {f \in SUBSET (1..n) : Cardinality(f) <= 1},
         summary_audit : BOOLEAN,
         handler_audit : BOOLEAN]

UploadConcepts == <<K6, K4>>

UploadMappings ==
    << [source_system |-> SysNamaste, source_code |-> CodeN1,
        target_system |-> SysIcd11, target_code |-> CodeT1,
        equivalence |-> "relatedto", confidence |-> 6,
        method |-> None, evidence |-> None, curator |-> None],
       [source_system |-> SysNamaste, source_code |-> CodeN1,
        target_system |-> SysIcd11, target_code |-> CodeT2,
        equivalence |-> "equivalent", confidence |-> 9,
        method |-> None, evidence |-> None, curator |-> None],
       [source_system |-> SysNamaste, source_code |-> CodeN1,
        target_system |-> SysIcd11, target_code |-> CodeT3,
        equivalence |-> "wider", confidence |-> 9,
        method |-> None, evidence |-> None, curator |-> None],
       [source_system |-> SysNamaste, source_code |-> CodeN2,
        target_system |-> SysIcd11, target_code |-> CodeT1,
        equivalence |-> "narrower", confidence |-> 8,
        method |-> Some("manual"), evidence |-> None, curator |-> None],
       [source_system |-> SysIcd11, source_code |-> <<"z">>,
        target_system |-> SysNamaste, target_code |-> CodeN1,
        equivalence |-> "relatedto", confidence |-> 10,
        method |-> None, evidence |-> None, curator |-> None] >>

InitUpload ==
    /\ concepts = UploadConcepts
    /\ mappings = UploadMappings
    /\ resp = Idle
    /\ sessions = NoSessions
    /\ audit_logs = <<>>

\* an upload taken while the audit log holds fewer than max_rows rows
UploadBundleWithin(max_rows, bundle, credentials, faults) ==
    /\ resp = Idle
    /\ Len(audit_logs) < max_rows
    /\ \E introspection \in {x \in Introspections : x.kind = credentials[2]} :
       \E r \in {upload_bundle(concepts, mappings, audit_logs, bundle,
                               credentials[1], introspection, faults)} :
           /\ resp' = [op |-> "upload", bundle |-> bundle,
                       authorization |-> credentials[1],
                       introspection |-> introspection,
                       faults |-> faults, before |-> audit_logs, r |-> r]
           /\ audit_logs' = r.log
    /\ UNCHANGED <<concepts, mappings, sessions>>

UploadBundle(bundle, credentials, faults) ==
    UploadBundleWithin(MaxAuditLogs, bundle, credentials, faults)

\* every bundle under every fault with the development token; a few bundles
\* with the other credentials, where only the audit writes of the summary
\* and of the error handler can fail
NextUpload ==
    \/ \E bundle \in UploadBundles :
           \E faults \in UploadFaults(bundle) :
               UploadBundle(bundle, DevCredentials, faults)
    \/ \E bundle \in FewBundles, credentials \in OtherCredentials :
           \E faults \in {f \in UploadFaults(bundle) :
                               f.translate = {} /\ f.entry_audit = {}} :
               UploadBundle(bundle, credentials, faults)
    \/ Reply

SpecUpload == InitUpload /\ [][NextUpload]_vars

-----------------------------------------------------------------------------
(* Claims about bundle upload.                                              *)

\* the request in resp carries a token the service accepts: a Bearer header
\* with the development token, or with a token the introspection endpoint
\* reports active
TokenAccepted ==
    /\ resp.authorization # None
    /\ LET words == resp.authorization[1]
       IN  /\ Len(words) >= 2 /\ words[1] = "Bearer"
           /\ \/ words[Len(words)] = "test"
                 /\ \A i \in 1..(Len(words) - 1) : words[i] = "Bearer"
              \/ resp.introspection.kind = "active"

\* the rows the upload in resp appended to the audit log
Appended == SubSeq(audit_logs, Len(resp.before) + 1, Len(audit_logs))

\* C12: an authenticated upload whose envelope has a resourceType other than
\* "Bundle" fails with status 400; no entry is processed, no audit record
\* (not even a failure record) and no Provenance is written, and every store
\* is left unchanged.
C12_NonBundleRejected ==
    (resp.op = "upload" /\ TokenAccepted
       /\ resp.bundle.resourceType # Some("Bundle")) =>
        /\ resp.r.status = 400
        /\ resp.r.steps = <<>>
        /\ resp.r.handler_audit = "none"
        /\ resp.r.provenance_id = None
        /\ resp.r.created_resources = <<>>
        /\ audit_logs = resp.before
        /\ concepts = UploadConcepts /\ mappings = UploadMappings

\* an accepted token and an envelope of another type that holds an entry
C12_Witness ==
    /\ resp.op = "upload" /\ TokenAccepted
    /\ resp.bundle.resourceType = Some("Patient")
    /\ resp.bundle.entry.items # <<>>
    /\ resp.r.status = 400

\* C13: an upload without an Authorization token, or with a token that
\* cannot be verified, is rejected with status 400, the detail carries the
\* verification message, and no bundle entry is processed.
C13_BadTokenIsClientError ==
    (resp.op = "upload" /\ ~TokenAccepted) =>
        /\ resp.r.status = 400
        /\ \E m \in { <<"No token provided">>,
                      <<"Token verification not configured">>,
                      <<"Token verification error: ", "Token is not active">> } :
               \E k \in 0..Len(resp.r.detail) :
                   SubSeq(resp.r.detail, k + 1, Len(resp.r.detail)) = m
        /\ resp.r.steps = <<>>

\* the entries of the uploaded bundle and the steps taken on them; the step
\* at position k belongs to the entry at position k
Items == resp.bundle.entry.items

IsCondition(k) ==
    /\ Items[k].shape = "object"
    /\ Items[k].resource.resourceType = Some("Condition")

\* the codings of entry k as uploaded
OldCodings(k) ==
    IF Items[k].resource.code.kind = "object"
    THEN Items[k].resource.code.coding ELSE <<>>

\* the rows of the Mapping store that translate a local code
MappedRows(code) ==
    {i \in 1..Len(mappings) :
        /\ mappings[i].source_system = SysNamaste
        /\ code # None /\ mappings[i].source_code = code[1]}

\* the positions of the codings of entry k that are in the local system
LocalCodings(k) ==
    {n \in 1..Len(OldCodings(k)) : OldCodings(k)[n].system = NamasteUri}

FirstLocalCoding(k) ==
    OldCodings(k)[CHOOSE n \in LocalCodings(k) : \A m \in LocalCodings(k) : n <= m]

\* the coding of the highest-confidence candidate for a local code: the
\* first row in store order among those of the highest confidence
BestCoding(code) ==
    LET rows == MappedRows(code)
        best == CHOOSE i \in rows :
                    \A j \in rows :
                        \/ mappings[j].confidence < mappings[i].confidence
                        \/ mappings[j].confidence = mappings[i].confidence /\ i <= j
        m == mappings[best]
        targets == {n \in 1..Len(concepts) :
                        /\ concepts[n].system = m.target_system
                        /\ concepts[n].code = m.target_code}
    IN  [system |-> Icd11Uri,
         code |-> Some(m.target_code),
         display |-> IF targets = {} THEN <<>>
                     ELSE concepts[CHOOSE n \in targets : TRUE].display,
         userSelected |-> Some(FALSE)]

\* the claim of C14 as stated: some coding of the local system has a mapped
\* code
C14_AnyLocalCodingAnnotated ==
    resp.op = "upload" =>
        \A k \in 1..Len(resp.r.steps) :
            (IsCondition(k)
               /\ \E n \in LocalCodings(k) :
                      MappedRows(OldCodings(k)[n].code) # {}) =>
                \E n \in LocalCodings(k) :
                    /\ MappedRows(OldCodings(k)[n].code) # {}
                    /\ resp.r.steps[k].resource.code.coding
                          = Append(OldCodings(k), BestCoding(OldCodings(k)[n].code))
                    /\ resp.r.steps[k].added = 1

\* C14: for a Condition entry whose first coding of the local system has a
\* code with at least one Mapping, and whose translation does not fail,
\* processing appends exactly one coding, the target code and display of the
\* highest-confidence candidate, after the existing codings, which keep
\* their order; and mappingsAdded increases by exactly 1.
C14_FirstLocalCodingAnnotated ==
    resp.op = "upload" =>
        \A k \in 1..Len(resp.r.steps) :
            (IsCondition(k) /\ LocalCodings(k) # {}
               /\ MappedRows(FirstLocalCoding(k).code) # {}
               /\ k \notin resp.faults.translate) =>
                /\ resp.r.steps[k].resource.code.coding
                      = Append(OldCodings(k), BestCoding(FirstLocalCoding(k).code))
                /\ resp.r.steps[k].added = 1

\* a successful upload with a Condition that holds another coding before
\* its mapped local coding, where the best row is not the first stored
C14_Witness ==
    /\ resp.op = "upload" /\ resp.r.status = 200
    /\ \E k \in 1..Len(resp.r.steps) :
           /\ IsCondition(k) /\ LocalCodings(k) # {}
           /\ 1 \notin LocalCodings(k)
           /\ FirstLocalCoding(k).code = Some(CodeN1)
           /\ resp.r.steps[k].resource.code.coding[Len(OldCodings(k)) + 1].code
                 = Some(CodeT2)
           /\ resp.r.mappings_added = 1

\* the reference under which entry k is reported
ReferenceOf(k) ==
    << Items[k].resource.resourceType[1], "/",
       IF Items[k].resource.id # None THEN Items[k].resource.id[1] ELSE "uuid" >>

\* C15: in a successful upload, a Condition entry that is processed without
\* a failure and has no coding of the local system, or whose local code (the
\* code of its first local coding) has no Mapping, leaves mappingsAdded and
\* the coding list of the resource unchanged, and its reference appears in
\* `created`.
C15_UnmappedConditionUnchanged ==
    (resp.op = "upload" /\ resp.r.status = 200) =>
        \A k \in 1..Len(resp.r.steps) :
            (IsCondition(k) /\ ~resp.r.steps[k].failed
               /\ (LocalCodings(k) = {}
                   \/ MappedRows(FirstLocalCoding(k).code) = {})) =>
                /\ resp.r.steps[k].added = 0
                /\ resp.r.steps[k].resource.code = Items[k].resource.code
                /\ ReferenceOf(k) \in Range(resp.r.created_resources)

\* a Condition whose first local coding is unmapped, although a later local
\* coding is mapped, and the only entry of a successful upload
C15_Witness ==
    /\ resp.op = "upload" /\ resp.r.status = 200
    /\ Len(resp.r.steps) = 1 /\ IsCondition(1) /\ ~resp.r.steps[1].failed
    /\ LocalCodings(1) # {}
    /\ MappedRows(FirstLocalCoding(1).code) = {}
    /\ \E n \in LocalCodings(1) : MappedRows(OldCodings(1)[n].code) # {}
    /\ resp.r.mappings_added = 0
    /\ resp.r.created_resources[1] = ReferenceOf(1)

\* the bundle in resp is structurally valid and holds no entry: the entry
\* list is empty or the key is missing
EmptyBundle ==
    /\ resp.bundle.resourceType = Some("Bundle")
    /\ resp.bundle.entry.kind \in {"list", "absent"}
    /\ resp.bundle.entry.items = <<>>

\* C16: an authenticated upload of a structurally valid Bundle with no
\* entries, whose summary audit write does not fail, succeeds with
\* mappingsAdded = 0 and no errors, appends exactly one audit record (the
\* action=upload summary) and no action=create record, and `created` holds
\* exactly one reference, the Provenance.
C16_EmptyBundleSucceeds ==
    (resp.op = "upload" /\ TokenAccepted /\ EmptyBundle
       /\ ~resp.faults.summary_audit) =>
        /\ resp.r.status = 200 /\ resp.r.success
        /\ resp.r.mappings_added = 0
        /\ resp.r.errors = <<>>
        /\ Len(Appended) = 1
        /\ Appended[1].action = "upload"
        /\ Appended[1].resource_type = Some("Bundle")
        /\ Len(resp.r.created_resources) = 1
        /\ resp.r.provenance_id # None
        /\ resp.r.created_resources[1]
              = <<"Provenance", "/", resp.r.provenance_id[1]>>

\* a Bundle without the entry key, uploaded with an introspected token
C16_Witness ==
    /\ resp.op = "upload" /\ TokenAccepted /\ EmptyBundle
    /\ resp.bundle.entry.kind = "absent"
    /\ resp.introspection.kind = "active"
    /\ ~resp.faults.summary_audit
    /\ resp.r.status = 200
    /\ Len(audit_logs) = Len(resp.before) + 1

\* the positions of the appended audit rows with the given action
AppendedWith(action) == {i \in 1..Len(Appended) : Appended[i].action = action}

\* C17: for a successful upload of a bundle with n entries in which no audit
\* write fails, exactly n audit records with action=create are appended,
\* one per entry whatever its kind and whether or not its processing
\* failed, and exactly one with action=upload, all for the bundle's id, and
\* the returned auditId is the identifier of the upload record.
C17_OneCreateRecordPerEntry ==
    (resp.op = "upload" /\ resp.r.status = 200
       /\ resp.faults.entry_audit = {} /\ ~resp.faults.summary_audit) =>
        /\ Cardinality(AppendedWith("create")) = Len(Items)
        /\ Cardinality(AppendedWith("upload")) = 1
        /\ \E b \in {Appended[Len(Appended)].resource_id} :
               \A i \in 1..Len(Appended) : <<"bundle_id", b>> \in Appended[i].detail
        /\ \A i \in AppendedWith("upload") :
               resp.r.audit_id = Some(Appended[i].id)

\* a sequence, a set of positions, without position k
Without(seq, k) == SubSeq(seq, 1, k - 1) \o SubSeq(seq, k + 1, Len(seq))

PositionsWithout(set, k) ==
    {i \in set : i < k} \cup {i - 1 : i \in {j \in set : j > k}}

\* the upload of resp made again from the same stores without entry k
UploadWithout(k) ==
    upload_bundle(concepts, mappings, resp.before,
                  [resp.bundle EXCEPT !.entry.items = Without(@, k)],
                  resp.authorization, resp.introspection,
                  [resp.faults EXCEPT
                      !.translate = PositionsWithout(@, k),
                      !.entry_audit = PositionsWithout(@, k)])

\* C18: a failure while processing one Condition entry is caught and adds
\* one message to `errors`; it does not affect any other entry: the other
\* entries are processed, audited and counted exactly as in the upload of the
\* bundle without the failing entry, and the upload as a whole still
\* succeeds if that upload does.
C18_FailedEntryIsolated ==
    resp.op = "upload" =>
        \A k \in 1..Len(resp.r.steps) :
            resp.r.steps[k].failed =>
                LET other == UploadWithout(k)
                IN  /\ resp.r.status = other.status
                    /\ Without(resp.r.steps, k) = other.steps
                    /\ resp.r.created_resources = other.created_resources
                    /\ resp.r.mappings_added = other.mappings_added
                    /\ resp.r.log = other.log
                    /\ other.status = 200 =>
                           Len(resp.r.errors) = Len(other.errors) + 1

\* the upload of resp made again from the same stores with every audit
\* write succeeding
UploadWithoutAuditFaults ==
    upload_bundle(concepts, mappings, resp.before, resp.bundle,
                  resp.authorization, resp.introspection,
                  [resp.faults EXCEPT !.entry_audit = {},
                                      !.summary_audit = FALSE])

\* an audit write of the upload in resp failed: the per-entry record of an
\* entry that reached its audit, or the summary record
AuditWriteFailed ==
    \/ \E k \in 1..Len(resp.r.steps) : resp.r.steps[k].audit = "failed"
    \/ resp.faults.summary_audit

\* C19: a failure to write an audit record during an upload, whether a
\* per-entry record or the final summary record, never turns an otherwise
\* successful upload into a failed one: the upload still returns success and
\* the failure is reported in `errors`.
C19_AuditFailureKeepsSuccess ==
    (resp.op = "upload" /\ UploadWithoutAuditFaults.status = 200
       /\ AuditWriteFailed) =>
        /\ resp.r.status = 200 /\ resp.r.success
        /\ Len(resp.r.errors) > Len(UploadWithoutAuditFaults.errors)

\* the upload in resp aborts with an exception that is not the structural
\* validation failure: the token is not accepted, or the bundle is a Bundle
\* whose entry list cannot be iterated, or which holds an entry whose
\* resource is not an object, or whose summary audit write fails
Aborts ==
    \/ ~TokenAccepted
    \/ /\ resp.bundle.resourceType = Some("Bundle")
       /\ \/ resp.bundle.entry.kind = "invalid"
          \/ \E k \in 1..Len(Items) : Items[k].shape = "invalid"
          \/ resp.faults.summary_audit

\* the appended audit rows that carry an error message
FailureRows ==
    {i \in 1..Len(Appended) :
        \E d \in Appended[i].detail : d[1] = "error_message"}

EntryResource(k) ==
    IF Items[k].shape = "object" THEN Items[k].resource ELSE EmptyResource

\* entry k is of one of the kinds that are recorded without processing
IsRecordedKind(k) ==
    /\ EntryResource(k).resourceType # None
    /\ EntryResource(k).resourceType[1]
          \in {"Observation", "DiagnosticReport", "Procedure"}

-----------------------------------------------------------------------------
(* Specification SpecService: every operation of the service on one        *)
(* database: seeding, add_mapping, translate, search and bundle upload.    *)

\* a mapping for the 4-tuple of the first default row with other remaining
\* arguments
ServiceMappingArgs ==
    { [DefaultMappings[1] EXCEPT !.equivalence = "equivalent", !.confidence = 6,
                                 !.method = None] }

CodingSeeded == Coding(NamasteUri, Some(DefaultMappings[1].source_code), <<"f">>)

CondSeeded ==
    Condition(Some("s1"), CodeableConcept("object", <<CodingSeeded>>), NoMeta)

ServiceBundles ==
    { Bundle(Some("Bundle"), "list", items) :
        items \in { <<CondSeeded, Observation>>, <<Consent, NotAnObject>> } }

\* an upload to the service is taken while the audit log holds fewer rows
\* than this, so that uploads meet a log that holds rows
MaxServiceAuditLogs == 2

\* the faults of a seeding run: none, or one row meeting one fault
SeedFaults ==
    {f \in [1..Len(DefaultMappings) -> Faults] :
        Cardinality({i \in DOMAIN f : f[i] # "none"}) <= 1}

\* the faults of an upload to the service: none, or one audit write failing
ServiceFaults(bundle) ==
    {f \in UploadFaults(bundle) :
        /\ f.translate = {}
        /\ Cardinality(f.entry_audit) + (IF f.summary_audit THEN 1 ELSE 0)
              + (IF f.handler_audit THEN 1 ELSE 0) <= 1}

InitService ==
    /\ concepts = UploadConcepts
    /\ mappings = <<>>
    /\ resp = Idle
    /\ sessions = NoSessions
    /\ audit_logs = <<>>

SeedDefaultMappings(faults) ==
    /\ resp = Idle
    /\ \E r \in {seed_default_mappings(mappings, faults)} :
           /\ mappings' = r.mappings
           /\ resp' = [op |-> "seed", faults |-> faults, before |-> mappings,
                       added |-> r.added, skipped |-> r.skipped,
                       total |-> r.total]
    /\ UNCHANGED <<concepts, sessions, audit_logs>>

NextService ==
    \/ \E faults \in SeedFaults : SeedDefaultMappings(faults)
    \/ \E a \in ServiceMappingArgs, fault \in Faults : AddMapping(a, fault)
    \/ \E code \in {DefaultMappings[1].source_code, CodeN1} :
           TranslateConcept(SysNamaste, code)
    \/ \E system \in {None, Some(SysIcd11)} :
           SearchTerms(<<"a">>, system, 1, NotCalled)
    \/ \E bundle \in ServiceBundles :
           \E faults \in ServiceFaults(bundle) :
               UploadBundleWithin(MaxServiceAuditLogs, bundle, DevCredentials,
                                  faults)
    \/ Reply

SpecService == InitService /\ [][NextService]_vars

-----------------------------------------------------------------------------
(* Claims about the audit log and the stores.                               *)

\* C22: each translate request appends an AuditRecord to the audit log, in
\* addition to returning its candidates.
C22_TranslateIsAudited ==
    [][(resp = Idle /\ resp'.op = "translate") =>
           /\ Len(audit_logs') = Len(audit_logs) + 1
           /\ SubSeq(audit_logs', 1, Len(audit_logs)) = audit_logs]_vars

\* C23: when an upload ends in a server error, none of the per-entry audit
\* records written earlier in that call remain in the audit log: at most the
\* single failure record of the error handler exists for the bundle.
C23_FailedUploadLeavesNoEntryRecords ==
    (resp.op = "upload" /\ resp.r.status = 500) =>
        /\ AppendedWith("create") = {}
        /\ Len(Appended) <= 1
        /\ \A i \in 1..Len(Appended) : i \in FailureRows

\* s is an initial part of t
IsPrefix(s, t) == Len(s) <= Len(t) /\ SubSeq(t, 1, Len(s)) = s

\* C24: both logs only grow: no operation of the service (search,
\* translate, add_mapping, seeding, bundle upload, failed audit writes with
\* their rollback) modifies or removes an audit record or a Mapping row that
\* was stored earlier.
C24_LogsOnlyGrow ==
    [][IsPrefix(audit_logs, audit_logs') /\ IsPrefix(mappings, mappings')]_vars

\* after seeding and an earlier upload, an upload wrote the audit record of its first entry, the
\* audit write of its second entry failed and was rolled back, and the
\* summary record follows the first
C24_Witness ==
    /\ resp.op = "upload" /\ resp.r.status = 200
    /\ resp.before # <<>>
    /\ Len(mappings) >= Len(DefaultMappings)
    /\ Len(resp.r.steps) = 2
    /\ resp.r.steps[1].audit = "written" /\ resp.r.steps[2].audit = "failed"
    /\ Len(Appended) = 2
    /\ Appended[1].action = "create" /\ Appended[2].action = "upload"

\* the positions of the entries of the upload in resp that are recorded:
\* the Conditions processed without failure and the entries of the kinds
\* recorded without processing
RecordedEntries ==
    {k \in 1..Len(resp.r.steps) :
        \/ IsCondition(k) /\ ~resp.r.steps[k].failed
        \/ ~IsCondition(k) /\ IsRecordedKind(k)}

\* C25: in a successful upload, `created` lists the references of the
\* recorded entries in bundle entry order, followed by exactly one Provenance
\* reference as its last element, whose id is the returned provenanceId; and
\* the action=upload summary record is written after every per-entry record
\* of the bundle.
C25_CreatedOrderAndProvenanceLast ==
    (resp.op = "upload" /\ resp.r.status = 200) =>
        LET recorded == SelectIdx(Len(Items), RecordedEntries)
            created == resp.r.created_resources
        IN  /\ Len(created) = Len(recorded) + 1
            /\ \A n \in 1..Len(recorded) : created[n] = ReferenceOf(recorded[n])
            /\ resp.r.provenance_id # None
            /\ created[Len(created)]
                  = <<"Provenance", "/", resp.r.provenance_id[1]>>
            /\ Appended # <<>>
            /\ AppendedWith("upload") = {Len(Appended)}
            /\ AppendedWith("create") = 1..(Len(Appended) - 1)

\* a successful upload of a Consent and two Conditions: two references, then
\* the Provenance; three create records, then the upload record
C25_Witness ==
    /\ resp.op = "upload" /\ resp.r.status = 200
    /\ Len(Items) = 3 /\ RecordedEntries = {2, 3}
    /\ Len(resp.r.created_resources) = 3
    /\ resp.r.created_resources[1] # resp.r.created_resources[2]
    /\ resp.r.created_resources[3][1] = "Provenance"
    /\ Len(Appended) = 4 /\ Appended[4].action = "upload"

\* the positions of the Consent entries of the uploaded bundle
ConsentEntries ==
    {k \in 1..Len(Items) :
        /\ Items[k].shape = "object"
        /\ Items[k].resource.resourceType = Some("Consent")}

\* what the upload did to the resources: the steps without their audit
StepsOnResources(steps) ==
    [k \in 1..Len(steps) |->
        [resource |-> steps[k].resource, added |-> steps[k].added,
         failed |-> steps[k].failed]]

DuplicateOutcome(a) == add_mapping(<<a>>, a, "none").ret

\* C27: if the insert or commit inside add_mapping fails, the Mapping Store
\* is unchanged, the request does not crash, and the caller is told of a
\* failure: the outcome is neither that of a successful insert nor the
\* 'already exists' outcome of a duplicate.
C27_FailedInsertIsReported ==
    [][(resp'.op = "add_mapping" /\ resp'.fault = "commit"
          /\ \A i \in 1..Len(mappings) : KeyOf(mappings[i]) # KeyOf(resp'.args)) =>
           /\ mappings' = mappings
           /\ resp'.ret # TRUE
           /\ resp'.ret # DuplicateOutcome(resp'.args)]_vars

-----------------------------------------------------------------------------
(* Further claims about search.                                             *)

\* the display, definition or code of the concept contains the query
TextMatch(c, query) ==
    \/ ILike(c.display, query)
    \/ c.definition # None /\ ILike(c.definition[1], query)
    \/ ILike(c.code, query)

\* C28: when search is called with system unset, the query of the local
\* Concept Store applies no system filter: a stored concept of any system
\* whose display, definition or code contains the query is eligible as a
\* local result, so it is returned whenever the response is not full.
C28_UnsetSystemSkipsFilter ==
    (resp.op = "search" /\ resp.status = 200 /\ resp.system = None
       /\ Len(resp.results) < resp.limit) =>
        \A i \in 1..Len(concepts) :
            TextMatch(concepts[i], resp.query) => Returned(i, 0)

\* C29: search returns the best matches: no stored concept that matches the
\* query and is left out of the response has a strictly higher relevance
\* score than a result that is returned.
C29_BestMatchesReturned ==
    (resp.op = "search" /\ resp.status = 200 /\ AsksLocal(resp.system)) =>
        \A i \in MatchingNamaste :
            ~Returned(i, 0) =>
                \A p \in 1..Len(resp.results) :
                    resp.results[p].relevance_score
                        >= _calculate_relevance_score(resp.query, concepts[i])

-----------------------------------------------------------------------------
(* A further claim about bundle upload.                                     *)

\* the positions in `created` of the references to Conditions
CreatedConditions ==
    {p \in 1..Len(resp.r.created_resources) :
        resp.r.created_resources[p][1] = "Condition"}

\* C30: in every upload response, mappingsAdded is the number of Condition
\* references in `created` that received a translated coding, and so never
\* exceeds the number of Condition references in `created`: a Condition whose
\* processing fails after its coding was appended is reported in `errors`
\* only and is not counted.
C30_MappingsAddedCountsCreated ==
    (resp.op = "upload" /\ resp.r.status = 200) =>
        /\ resp.r.mappings_added
              = Cardinality({k \in RecordedEntries :
                                IsCondition(k) /\ resp.r.steps[k].added = 1})
        /\ resp.r.mappings_added <= Cardinality(CreatedConditions)

====
